---- MODULE Spec2Model ----
(***************************************************************************)
(* A model of dsp-tracker's query-composition core (field enumerations,    *)
(* sort and page parsing, the join tracker) and of its version-checked     *)
(* write path (lookup / update / commit over a store with row locks).      *)
(*                                                                         *)
(* Text is modelled with TLA+ strings (Len, SubSeq and \o act on them), so *)
(* parsing and formatting are computed character by character as the code  *)
(* computes them.  A u64 is a little-endian vector of four 16-bit limbs,   *)
(* so that its full width is kept.                                         *)
(***************************************************************************)
EXTENDS Integers, Sequences, FiniteSets, TLC

VARIABLES
    call,    \* the pure call drawn: [fn, ...arguments]
    ret,     \* what that call returned
    kind,    \* the entity whose table and handlers are run: save, solar-system or star
    rows,    \* the table's committed rows, by id
    nextId,  \* the next id Uuid::new_v4() hands out
    started, \* the number of requests begun so far
    pc,      \* per handler: the statement it is about to execute
    req,     \* per handler: the request being served
    ent,     \* per handler: the entity it holds (built by new, or looked up and patched)
    tx,      \* per handler: its transaction's uncommitted write, None or <<[id, row]>>
    result,  \* per handler: what the handler returned
    steps    \* the storage-layer steps a list request has taken, in order

pureVars == <<call, ret, steps>>
dbVars == <<kind, rows, nextId, started, pc, req, ent, tx, result, steps>>
vars == <<call, ret, kind, rows, nextId, started, pc, req, ent, tx, result, steps>>

(***************************************************************************)
(* Bounds of the model.                                                    *)
(***************************************************************************)
\* The longest list of raw sort tokens / sort directives drawn as an input.
MaxSorts == 2
\* The longest list of sort directives add_sorts is given.
MaxDirectives == 3
\* The number of ids Uuid::new_v4() can hand out (rows ever created).
MaxId == 2
\* The number of requests served in a run.
MaxRequests == 3
\* The calls of values() made on one enumeration.
MaxCalls == 2

(***************************************************************************)
(* Text helpers: str::to_ascii_lowercase, str::starts_with, split_once.    *)
(***************************************************************************)
UpperChars == "ABCDEFGHIJKLMNOPQRSTUVWXYZ"
LowerChars == "abcdefghijklmnopqrstuvwxyz"

CharAt(s, i) == SubSeq(s, i, i)

LowerChar(c) ==
    IF \E i \in 1..Len(UpperChars) : CharAt(UpperChars, i) = c
    THEN CharAt(LowerChars, CHOOSE i \in 1..Len(UpperChars) : CharAt(UpperChars, i) = c)
    ELSE c

UpperChar(c) ==
    IF \E i \in 1..Len(LowerChars) : CharAt(LowerChars, i) = c
    THEN CharAt(UpperChars, CHOOSE i \in 1..Len(LowerChars) : CharAt(LowerChars, i) = c)
    ELSE c

\* Mutant: the text is compared as given.
KeepCase(s) == s

RECURSIVE to_ascii_lowercase(_)
to_ascii_lowercase(s) ==
    IF s = "" THEN ""
    ELSE LowerChar(CharAt(s, 1)) \o to_ascii_lowercase(SubSeq(s, 2, Len(s)))

starts_with(s, p) == Len(s) >= Len(p) /\ SubSeq(s, 1, Len(p)) = p

\* The position of the first occurrence of the one-character text c in s, 0 if none.
FindChar(s, c) ==
    IF \E i \in 1..Len(s) : CharAt(s, i) = c
    THEN CHOOSE i \in 1..Len(s) :
            CharAt(s, i) = c /\ \A j \in 1..(i - 1) : CharAt(s, j) # c
    ELSE 0

\* Mutant: the split is made at the LAST ':' (rsplit_once).
rsplit_once(s) ==
    LET is == {i \in 1..Len(s) : CharAt(s, i) = ":"} IN
    IF is = {} THEN [some |-> FALSE]
    ELSE LET i == CHOOSE k \in is : \A j \in is : j <= k IN
         [some |-> TRUE, before |-> SubSeq(s, 1, i - 1), after |-> SubSeq(s, i + 1, Len(s))]

\* str::split_once(':'): None, or the text before and after the FIRST ':'.
split_once(s) ==
    LET i == FindChar(s, ":") IN
    IF i = 0 THEN [some |-> FALSE]
    ELSE [some |-> TRUE, before |-> SubSeq(s, 1, i - 1), after |-> SubSeq(s, i + 1, Len(s))]

\* &s[n..] of an ASCII text: aborts (panics) when n is past the end.
SliceFrom(s, n) ==
    IF n > Len(s) THEN [panic |-> TRUE]
    ELSE [panic |-> FALSE, text |-> SubSeq(s, n + 1, Len(s))]

(***************************************************************************)
(* u64 as four 16-bit limbs, least significant first.                      *)
(***************************************************************************)
LimbBase == 256 * 256

U64(n) == <<n % LimbBase, (n \div LimbBase) % LimbBase, 0, 0>>

\* a < b, comparing from the most significant limb down.
U64Less(a, b) ==
    \E i \in 1..4 : a[i] < b[i] /\ \A j \in (i + 1)..4 : a[j] = b[j]

U64Max(a, b) == IF U64Less(a, b) THEN b ELSE a
U64Min(a, b) == IF U64Less(b, a) THEN b ELSE a

\* v * 10 + d with the carry out of the top limb reported as overflow.
MulAdd10(v, d) ==
    LET t1 == v[1] * 10 + d
        t2 == v[2] * 10 + (t1 \div LimbBase)
        t3 == v[3] * 10 + (t2 \div LimbBase)
        t4 == v[4] * 10 + (t3 \div LimbBase)
    IN [val |-> <<t1 % LimbBase, t2 % LimbBase, t3 % LimbBase, t4 % LimbBase>>,
        overflow |-> t4 \div LimbBase > 0]

Digits == "0123456789"
IsDigit(c) == \E i \in 1..10 : CharAt(Digits, i) = c
DigitVal(c) == (CHOOSE i \in 1..10 : CharAt(Digits, i) = c) - 1

RECURSIVE ParseDigits(_, _)
ParseDigits(s, acc) ==
    IF s = "" THEN [ok |-> TRUE, val |-> acc]
    ELSE IF ~IsDigit(CharAt(s, 1)) THEN [ok |-> FALSE]
    ELSE LET m == MulAdd10(acc, DigitVal(CharAt(s, 1))) IN
         IF m.overflow THEN [ok |-> FALSE]
         ELSE ParseDigits(SubSeq(s, 2, Len(s)), m.val)

\* u64::from_str_radix(s, 10): empty text, a lone sign, a '-', any non-digit and
\* a value past 2^64 - 1 are errors; one leading '+' is accepted.
from_str_radix(s) ==
    IF s = "" THEN [ok |-> FALSE]
    ELSE IF Len(s) = 1 /\ s \in {"+", "-"} THEN [ok |-> FALSE]
    ELSE IF CharAt(s, 1) = "+" THEN ParseDigits(SubSeq(s, 2, Len(s)), U64(0))
    ELSE ParseDigits(s, U64(0))

(***************************************************************************)
(* The field enumerations declared with field_names!.                      *)
(* A member is the path of its variant names: SaveFields::Name is          *)
(* <<"Name">>, SolarSystemFields::Save(SaveFields::Name) is                *)
(* <<"Save", "Name">>.                                                     *)
(***************************************************************************)
FieldTypes == {"SaveFields", "SolarSystemFields", "StarFields"}

Leaf(name, text, dflt) ==
    [name |-> name, nested |-> FALSE, text |-> text, sub |-> "", dflt |-> dflt]
Nested(name, sub, prefix) ==
    [name |-> name, nested |-> TRUE, text |-> prefix, sub |-> sub, dflt |-> FALSE]

SaveFields ==
    << Leaf("Id", "id", FALSE),
       Leaf("CreatedAt", "created_at", TRUE),
       Leaf("Name", "name", FALSE),
       Leaf("Notes", "notes", FALSE) >>

SolarSystemFields ==
    << Leaf("Id", "id", FALSE),
       Nested("Save", "SaveFields", "save"),
       Leaf("CreatedAt", "created_at", TRUE),
       Leaf("Name", "name", FALSE),
       Leaf("Notes", "notes", FALSE) >>

StarFields ==
    << Leaf("Id", "id", FALSE),
       Nested("SolarSystem", "SolarSystemFields", "solar_system"),
       Leaf("CreatedAt", "created_at", TRUE),
       Leaf("SpectralClass", "notes", FALSE),
       Leaf("Luminosity", "luminosity", FALSE),
       Leaf("Radius", "radius", FALSE) >>

Variants(T) ==
    CASE T = "SaveFields" -> SaveFields
      [] T = "SolarSystemFields" -> SolarSystemFields
      [] T = "StarFields" -> StarFields

VariantOf(T, name) ==
    LET vs == Variants(T) IN vs[CHOOSE i \in 1..Len(vs) : vs[i].name = name]

\* Default::default(): the variant tagged #[default]; a tagged nested variant
\* wraps the nested type's default.
RECURSIVE Default(_)
Default(T) ==
    LET vs == Variants(T)
        i == CHOOSE k \in 1..Len(vs) : vs[k].dflt /\ \A j \in 1..(k - 1) : ~vs[j].dflt
    IN IF vs[i].nested THEN <<vs[i].name>> \o Default(vs[i].sub) ELSE <<vs[i].name>>

\* Field::name(): the literal of a leaf; "{prefix}.{nested name}" of a nested variant.
RECURSIVE name(_, _)
name(T, f) ==
    LET v == VariantOf(T, Head(f)) IN
    IF v.nested THEN v.text \o "." \o name(v.sub, Tail(f)) ELSE v.text

\* Field::values(): per variant in declaration order, the leaf itself or every
\* member of the nested type wrapped in the variant.
RECURSIVE values(_)
RECURSIVE AppendValues(_, _, _)
\* Mutant: a nested variant contributes one member, wrapping the nested default.
AppendValuesNestedOnce(T, i, acc) ==
    LET vs == Variants(T) IN
    IF i > Len(vs) THEN acc
    ELSE LET v == vs[i]
             more == IF v.nested THEN << <<v.name>> \o Default(v.sub) >>
                     ELSE << <<v.name>> >>
         IN AppendValues(T, i + 1, acc \o more)

AppendValues(T, i, acc) ==
    LET vs == Variants(T) IN
    IF i > Len(vs) THEN acc
    ELSE LET v == vs[i]
             sub == IF v.nested THEN values(v.sub) ELSE <<>>
             more == IF v.nested
                     THEN [k \in 1..Len(sub) |-> <<v.name>> \o sub[k]]
                     ELSE << <<v.name>> >>
         IN AppendValues(T, i + 1, acc \o more)

values(T) == AppendValues(T, 1, <<>>)

(***************************************************************************)
(* FromStr of a generated field enumeration (field_names! @from_str).      *)
(* A result is Ok(member), Err(InvalidFieldError(text)) or an abort.       *)
(***************************************************************************)
Ok(v) == [tag |-> "Ok", val |-> v]
Err(e) == [tag |-> "Err", err |-> e]
Panic == [tag |-> "Panic"]

\* @from_str_cond: a leaf matches the whole lowered text, a nested variant
\* matches any lowered text that starts with its prefix.
from_str_cond(v, lower) ==
    IF v.nested THEN starts_with(lower, v.text) ELSE lower = v.text

\* let stripped = &lower[prefix.len() + 1..]
stripped(v, lower) == SliceFrom(lower, Len(v.text) + 1)

RECURSIVE from_str(_, _)

\* @from_str_result: Ok(Self::name) for a leaf; for a nested variant the text
\* after the prefix and one more character, empty giving the nested default.
from_str_result(v, lower) ==
    IF ~v.nested THEN Ok(<<v.name>>)
    ELSE LET st == stripped(v, lower) IN
         IF st.panic THEN Panic
         ELSE IF st.text = "" THEN Ok(<<v.name>> \o Default(v.sub))
         ELSE LET r == from_str(v.sub, st.text) IN
              IF r.tag = "Ok" THEN Ok(<<v.name>> \o r.val) ELSE r

\* The if / else-if chain over the variants in declaration order.
RECURSIVE FromStrChain(_, _, _, _)
FromStrChain(T, i, arg, lower) ==
    LET vs == Variants(T) IN
    IF i > Len(vs) THEN Err(arg)
    ELSE IF from_str_cond(vs[i], lower) THEN from_str_result(vs[i], lower)
    ELSE FromStrChain(T, i + 1, arg, lower)

from_str(T, s) == FromStrChain(T, 1, s, to_ascii_lowercase(s))

(***************************************************************************)
(* SortDirection and Sort::try_from.                                       *)
(***************************************************************************)
\* SortDirection::iter() in declaration order, as the lowercase texts strum
\* serializes.
SortDirections == <<"asc", "desc">>

\* SortDirection::from_str: strum's ascii_case_insensitive match of "asc"/"desc".
SortDirection_from_str(s) ==
    LET lower == to_ascii_lowercase(s) IN
    IF \E i \in 1..Len(SortDirections) : SortDirections[i] = lower
    THEN Ok(lower) ELSE Err(s)

\* TrackerError::invalid_field(FieldValue::new(field, value), allowed_values)
invalid_field(field, value, allowed) ==
    [kind |-> "InvalidFieldValue", field |-> field, value |-> value, allowed |-> allowed]

\* Mutant: only the enumeration's own leaf names are listed.
ChoiceOfLeaves(T) ==
    LET ls == SelectSeq(Variants(T), LAMBDA v : ~v.nested) IN
    [type |-> "Choice", values |-> [i \in 1..Len(ls) |-> ls[i].text]]

\* AllowedValues::choice(T::values()): each member as Value::String(name()).
ChoiceOfFields(T) ==
    LET vs == values(T) IN
    [type |-> "Choice", values |-> [i \in 1..Len(vs) |-> name(T, vs[i])]]

\* AllowedValues::choice(SortDirection::iter())
ChoiceOfDirections == [type |-> "Choice", values |-> SortDirections]

\* AllowedValues::integer_min(Bound::inclusive(1))
IntegerMin1 == [type |-> "Integer", min |-> [value |-> 1, inclusive |-> TRUE], max |-> "None"]

\* The field half of Sort::try_from: T::from_str(raw) with the error mapped.
SortField(T, raw) ==
    LET r == from_str(T, raw) IN
    IF r.tag = "Err" THEN Err(invalid_field("sort:field", raw, ChoiceOfFields(T))) ELSE r

SortDir(raw) ==
    LET r == SortDirection_from_str(raw) IN
    IF r.tag = "Err" THEN Err(invalid_field("sort:direction", raw, ChoiceOfDirections)) ELSE r

Sort_try_from(T, value) ==
    LET sp == split_once(value) IN
    IF sp.some
    THEN LET f == SortField(T, sp.before) IN
         IF f.tag # "Ok" THEN f
         ELSE LET d == SortDir(sp.after) IN
              IF d.tag # "Ok" THEN d
              ELSE Ok([field |-> f.val, direction |-> d.val])
    ELSE LET f == SortField(T, value) IN
         IF f.tag # "Ok" THEN f
         ELSE Ok([field |-> f.val, direction |-> SortDirections[1]])

(***************************************************************************)
(* PageRequest::try_from (the Page Request Normalizer).                    *)
(* An Option is <<>> (None) or <<x>> (Some(x)).                            *)
(***************************************************************************)
FIRST_PAGE == 1
MAX_PAGE_SIZE == 500
DEFAULT_PAGE_SIZE == 100

None == <<>>
Some(x) == <<x>>
Opt(S) == {None} \cup {Some(x) : x \in S}
unwrap_or(opt, d) == IF opt = None THEN d ELSE opt[1]

\* for sort_raw in page_request.sorts { sorts.push(Sort::try_from(sort_raw)?) }
RECURSIVE ParseSorts(_, _, _, _)
ParseSorts(T, raws, i, acc) ==
    IF i > Len(raws) THEN Ok(acc)
    ELSE LET r == Sort_try_from(T, raws[i]) IN
         IF r.tag # "Ok" THEN r
         ELSE ParseSorts(T, raws, i + 1, Append(acc, r.val))

\* Sort::<T>::default()
SortDefault(T) == [field |-> Default(T), direction |-> SortDirections[1]]

\* Mutant: the default directive is pushed whether or not tokens were given.
OrDefaultSortAlways(T, sorts) == Append(sorts, SortDefault(T))

\* if sorts.is_empty() { sorts.push(Sort::default()) }
OrDefaultSort(T, sorts) == IF sorts = <<>> THEN <<SortDefault(T)>> ELSE sorts

\* Mutant: a text that does not parse counts as absent.
ParseOptU64OrAbsent(field, opt) ==
    IF opt = None THEN Ok(None)
    ELSE LET r == from_str_radix(opt[1]) IN
         IF r.ok THEN Ok(Some(r.val)) ELSE Ok(None)

\* opt.map(|s| u64::from_str_radix(&s, 10).map_err(..invalid_field(field, s, ..))).transpose()
ParseOptU64(field, opt) ==
    IF opt = None THEN Ok(None)
    ELSE LET r == from_str_radix(opt[1]) IN
         IF r.ok THEN Ok(Some(r.val))
         ELSE Err(invalid_field(field, opt[1], IntegerMin1))

\* Mutants: the clamps left out.
NormalPageUnclamped(page) == unwrap_or(page, U64(FIRST_PAGE))
NormalSizeUnclamped(size) == unwrap_or(size, U64(DEFAULT_PAGE_SIZE))

\* page.unwrap_or(FIRST_PAGE).max(FIRST_PAGE)
NormalPage(page) == U64Max(unwrap_or(page, U64(FIRST_PAGE)), U64(FIRST_PAGE))

\* size.unwrap_or(DEFAULT_PAGE_SIZE).min(MAX_PAGE_SIZE)
NormalSize(size) == U64Min(unwrap_or(size, U64(DEFAULT_PAGE_SIZE)), U64(MAX_PAGE_SIZE))

PageRequest_try_from(T, raw) ==
    LET sorts == ParseSorts(T, raw.sorts, 1, <<>>) IN
    IF sorts.tag # "Ok" THEN sorts
    ELSE LET page == ParseOptU64("page", raw.page) IN
         IF page.tag # "Ok" THEN page
         ELSE LET size == ParseOptU64("size", raw.size) IN
              IF size.tag # "Ok" THEN size
              ELSE Ok([page |-> NormalPage(page.val),
                       size |-> NormalSize(size.val),
                       sorts |-> OrDefaultSort(T, sorts.val)])

(***************************************************************************)
(* f32 arithmetic of PageMetadata::new: an f32 is zero, infinite, NaN or   *)
(* finite m * 2^e with a 24-bit significand 2^23 <= m < 2^24; every        *)
(* operation rounds to nearest, ties to even.                              *)
(***************************************************************************)
RECURSIVE Pow2(_)
Pow2(k) == IF k = 0 THEN 1 ELSE 2 * Pow2(k - 1)

RECURSIVE BitLen(_)
BitLen(n) == IF n = 0 THEN 0 ELSE 1 + BitLen(n \div 2)

F32Zero == [class |-> "zero"]
F32Inf == [class |-> "inf"]
F32NaN == [class |-> "nan"]
Finite(m, e) == [class |-> "finite", m |-> m, e |-> e]

\* n without its low s bits, rounded to nearest, ties to even; sticky tells
\* that nonzero bits were lost below n already.
RoundShift(n, s, sticky) ==
    LET q == n \div Pow2(s)
        r == n % Pow2(s)
        half == Pow2(s - 1)
        up == r > half \/ (r = half /\ (sticky \/ q % 2 = 1))
    IN IF up THEN q + 1 ELSE q

\* The finite f32 nearest to n * 2^e (n > 0 of at most 26 bits, plus sticky).
Rounded(n, e, sticky) ==
    LET b == BitLen(n) IN
    IF b <= 24 THEN Finite(n * Pow2(24 - b), e - (24 - b))
    ELSE LET m == RoundShift(n, b - 24, sticky) IN
         IF m = Pow2(24) THEN Finite(Pow2(23), e + (b - 24) + 1)
         ELSE Finite(m, e + (b - 24))

\* Bit i (0 the least significant) of a u64.
U64Bit(v, i) == (v[(i \div 16) + 1] \div Pow2(i % 16)) % 2

\* The leading 26 bits of v from bit i down, the weight of the last one kept,
\* and whether a nonzero bit was dropped.
RECURSIVE LeadingBits(_, _, _, _, _)
LeadingBits(v, i, n, e, sticky) ==
    IF i < 0 THEN [n |-> n, e |-> e, sticky |-> sticky]
    ELSE IF n < Pow2(25) THEN LeadingBits(v, i - 1, 2 * n + U64Bit(v, i), 0, sticky)
    ELSE LeadingBits(v, i - 1, n, e + 1, sticky \/ U64Bit(v, i) = 1)

\* v as f32
as_f32(v) ==
    IF v = U64(0) THEN F32Zero
    ELSE LET l == LeadingBits(v, 63, 0, 0, FALSE) IN Rounded(l.n, l.e, l.sticky)

\* k quotient bits of rem / d by long division (rem < 2 * d).
RECURSIVE DivBits(_, _, _, _)
DivBits(rem, d, k, q) ==
    IF k = 0 THEN [q |-> q, rem |-> rem]
    ELSE LET bit == IF rem >= d THEN 1 ELSE 0 IN
         DivBits(2 * (rem - bit * d), d, k - 1, 2 * q + bit)

\* a / b
F32Div(a, b) ==
    IF a.class = "nan" \/ b.class = "nan" THEN F32NaN
    ELSE IF a.class = "zero" THEN (IF b.class = "zero" THEN F32NaN ELSE F32Zero)
    ELSE IF b.class = "zero" THEN F32Inf
    ELSE LET d == DivBits(a.m, b.m, 26, 0) IN
         Rounded(d.q, a.e - b.e - 25, d.rem # 0)

\* f32::ceil
F32Ceil(x) ==
    IF x.class # "finite" \/ x.e >= 0 THEN x
    ELSE IF x.e <= -24 THEN Finite(Pow2(23), -23)
    ELSE LET whole == x.m \div Pow2(-x.e)
             up == IF x.m % Pow2(-x.e) # 0 THEN whole + 1 ELSE whole
         IN Rounded(up, 0, FALSE)

U64_MAX == <<LimbBase - 1, LimbBase - 1, LimbBase - 1, LimbBase - 1>>

\* Limb j of m * 2^e (m of 24 bits, e >= 0).
ShiftedLimb(m, e, j) ==
    LET p == 16 * (j - 1) - e IN
    IF p >= 24 \/ p <= -16 THEN 0
    ELSE IF p >= 0 THEN (m \div Pow2(p)) % LimbBase
    ELSE (m % Pow2(16 + p)) * Pow2(-p)

\* x as u64: truncates, saturates, NaN gives 0.
as_u64(x) ==
    CASE x.class = "zero" -> U64(0)
      [] x.class = "nan" -> U64(0)
      [] x.class = "inf" -> U64_MAX
      [] x.class = "finite" ->
            IF x.e < 0 THEN (IF x.e <= -24 THEN U64(0) ELSE U64(x.m \div Pow2(-x.e)))
            ELSE IF x.e > 40 THEN U64_MAX
            ELSE [j \in 1..4 |-> ShiftedLimb(x.m, x.e, j)]

\* v + 1 and v - 1 where they do not leave u64.
RECURSIVE U64Inc(_, _)
U64Inc(v, i) ==
    IF v[i] < LimbBase - 1 THEN [v EXCEPT ![i] = @ + 1]
    ELSE U64Inc([v EXCEPT ![i] = 0], i + 1)

RECURSIVE U64Dec(_, _)
U64Dec(v, i) ==
    IF v[i] > 0 THEN [v EXCEPT ![i] = @ - 1]
    ELSE U64Dec([v EXCEPT ![i] = LimbBase - 1], i + 1)

\* v * k for a k below 2^15, with the carry out of the top limb reported as
\* overflow and the low 64 bits as the wrapped value.
U64MulSmall(v, k) ==
    LET t1 == v[1] * k
        t2 == v[2] * k + (t1 \div LimbBase)
        t3 == v[3] * k + (t2 \div LimbBase)
        t4 == v[4] * k + (t3 \div LimbBase)
    IN [val |-> <<t1 % LimbBase, t2 % LimbBase, t3 % LimbBase, t4 % LimbBase>>,
        overflow |-> t4 \div LimbBase > 0]

\* self.page - 1
PageMinusOne(page) ==
    IF page = U64(0) THEN [val |-> U64_MAX, overflow |-> TRUE]
    ELSE [val |-> U64Dec(page, 1), overflow |-> FALSE]

\* PageRequest::offset(): the outcomes of (self.page - 1) * self.size.  When the
\* arithmetic leaves u64 a build with overflow checks aborts and a build
\* without them wraps; size is at most MAX_PAGE_SIZE, one limb.
offset(request) ==
    LET less == PageMinusOne(request.page)
        product == U64MulSmall(less.val, request.size[1])
    IN IF less.overflow \/ product.overflow
       THEN {Panic, Ok(product.val)}
       ELSE {Ok(product.val)}

\* Mutant: the last page still announces a next page.
HasNextInclusive(page, total_pages) == ~U64Less(total_pages, page)

\* page < total_pages
HasNext(page, total_pages) == U64Less(page, total_pages)

\* Mutant: the previous page is reported on every page.
PageMetadata_new_prev_always(page, size, total_results) ==
    LET total_pages == as_u64(F32Ceil(F32Div(as_f32(total_results), as_f32(size)))) IN
    [total_results |-> total_results,
     total_pages |-> total_pages,
     current_page |-> page,
     next_page |-> IF HasNext(page, total_pages) THEN Some(U64Inc(page, 1)) ELSE None,
     prev_page |-> Some(IF page = U64(0) THEN page ELSE U64Dec(page, 1))]

PageMetadata_new(page, size, total_results) ==
    LET total_pages == as_u64(F32Ceil(F32Div(as_f32(total_results), as_f32(size)))) IN
    [total_results |-> total_results,
     total_pages |-> total_pages,
     current_page |-> page,
     next_page |-> IF HasNext(page, total_pages) THEN Some(U64Inc(page, 1)) ELSE None,
     prev_page |-> IF U64Less(U64(1), page) THEN Some(U64Dec(page, 1)) ELSE None]

(***************************************************************************)
(* The solar-system search's join tracker (add_sorts, add_join_for_field). *)
(* A statement is the sequence of the clauses added to it.                 *)
(***************************************************************************)
\* The table a field enumeration's own leaf columns belong to (Iden renames).
TableOf(T) ==
    CASE T = "SaveFields" -> "saves"
      [] T = "SolarSystemFields" -> "solar_systems"
      [] T = "StarFields" -> "stars"

\* Field::column(): (Table, column) of a leaf; a nested variant delegates.
RECURSIVE column(_, _)
column(T, f) ==
    LET v == VariantOf(T, Head(f)) IN
    IF v.nested THEN column(v.sub, Tail(f)) ELSE <<TableOf(T), v.name>>

\* GameSaveColumns::Table.to_string()
save_table == "saves"

\* Mutant: the tracker is never consulted.
NeedsJoinAlways(joins_tracker) == TRUE

\* if !joins_tracker.contains(&save_table)
NeedsJoin(joins_tracker) == \A i \in 1..Len(joins_tracker) : joins_tracker[i] # save_table

add_join_for_field(st, field) ==
    IF Head(field) = "Save" /\ NeedsJoin(st.joins_tracker)
    THEN [select_stmt |-> Append(st.select_stmt, [clause |-> "left_join", table |-> save_table]),
          joins_tracker |-> Append(st.joins_tracker, save_table)]
    ELSE st

\* Mutant: the ORDER BY term first, the join after it.
AddSortOrderFirst(st, sort) ==
    add_join_for_field(
        [st EXCEPT !.select_stmt =
            Append(@, [clause |-> "order_by",
                       column |-> column("SolarSystemFields", sort.field),
                       order |-> sort.direction])],
        sort.field)

\* One turn of add_sorts' loop: the join if any, then the ORDER BY term.
AddSort(st, sort) ==
    LET j == add_join_for_field(st, sort.field) IN
    [j EXCEPT !.select_stmt =
        Append(@, [clause |-> "order_by",
                   column |-> column("SolarSystemFields", sort.field),
                   order |-> sort.direction])]

RECURSIVE add_sorts(_, _)
add_sorts(st, sorts) ==
    IF sorts = <<>> THEN st ELSE add_sorts(AddSort(st, Head(sorts)), Tail(sorts))

(***************************************************************************)
(* The store: one table (the run's kind) of versioned rows, read and       *)
(* written by concurrent handlers, each inside its own transaction.        *)
(* Statements see the committed rows and the transaction's own write; a    *)
(* write to a row another transaction has written waits for that           *)
(* transaction to end (row locks, READ COMMITTED).                         *)
(***************************************************************************)
Kinds == {"Save", "SolarSystem", "Star"}
Handlers == {"h1", "h2"}
Ids == 1..MaxId
Names == {"a", "b"}
\* The other patched columns (mining speed, notes, spectral class ...) as one.
Data == IF kind = "Star" THEN {0, 1} ELSE {0}
\* The parent rows (the save of a solar system, the solar system of a star):
\* parent 1 exists, parent 2 does not.  A save has no parent (0).
ExistingParents == {1}
ParentIds == {1, 2}

NoRow == [exists |-> FALSE]
NoResult == [tag |-> "None"]

ParentKind(k) == IF k = "SolarSystem" THEN "Save" ELSE "SolarSystem"

\* Mutant: versions are counted from 1.
NewAtVersionOne(id, parent, nm, data) ==
    [exists |-> TRUE, id |-> id, created_at |-> "now", updated_at |-> None, version |-> 1,
     parent |-> parent, name |-> nm, data |-> data]

\* GameSave::new / SolarSystem::new / Star::new: a fresh id, version 0.
new(id, parent, nm, data) ==
    [exists |-> TRUE, id |-> id, created_at |-> "now", updated_at |-> None, version |-> 0,
     parent |-> parent, name |-> nm, data |-> data]

\* TrackerError::not_found / duplicate / concurrent_update
TrackerError(errKind, object, keys) == [kind |-> errKind, object |-> object, keys |-> keys]
FieldValue(nm, value) == [name |-> nm, value |-> value]

\* TrackerError::from(sqlx::Error)
SqlError(e) == [kind |-> "SqlError", source |-> e]

\* TrackerError::not_found_unexpected
not_found_unexpected(e) ==
    IF e.kind = "NotFound" THEN [e EXCEPT !.kind = "UnexpectedNotFound"] ELSE e

\* The row a statement of handler h sees under id.
Visible(h, id) ==
    IF tx[h] # None /\ tx[h][1].id = id THEN tx[h][1].row ELSE rows[id]

LockedByOther(h, id) ==
    \E g \in Handlers \ {h} : tx[g] # None /\ tx[g][1].id = id

\* The columns of the table's unique constraint.
UniqueKey(k, row) ==
    CASE k = "Save" -> <<row.name>>
      [] k = "SolarSystem" -> <<row.parent, row.name>>
      [] k = "Star" -> <<row.parent>>

HasKey(k, row, key) == row.exists /\ UniqueKey(k, row) = key

\* Another transaction's uncommitted write holds (or is giving up) the key.
KeyLockedByOther(h, key) ==
    \E g \in Handlers \ {h} :
        /\ tx[g] # None
        /\ HasKey(kind, tx[g][1].row, key) \/ HasKey(kind, rows[tx[g][1].id], key)

\* The database error raised when row would be stored: a foreign-key violation
\* (no such parent), a unique violation (another committed row has the key).
ConstraintError(row) ==
    IF kind # "Save" /\ row.parent \notin ExistingParents
    THEN Some([kind |-> "ForeignKeyViolation",
               constraint |-> IF kind = "SolarSystem" THEN "solar_systems_save_id_fkey"
                              ELSE "stars_solar_system_id_fkey"])
    ELSE IF \E i \in Ids : i # row.id /\ HasKey(kind, rows[i], UniqueKey(kind, row))
    THEN Some([kind |-> "UniqueViolation",
               constraint |-> CASE kind = "Save" -> "saves_name_key"
                                [] kind = "SolarSystem" -> "solar_systems_save_id_name_key"
                                [] kind = "Star" -> "stars_solar_system_id_key"])
    ELSE None

\* Mutant: the violation's kind decides, whatever the constraint.
map_by_violation_kind(k, e, row) ==
    IF e.kind = "UniqueViolation"
    THEN TrackerError("Duplicate", k, <<FieldValue("id", row.id)>>)
    ELSE IF e.kind = "ForeignKeyViolation" /\ k # "Save"
    THEN TrackerError("NotFound", ParentKind(k), <<FieldValue("id", row.parent)>>)
    ELSE SqlError(e)

\* map_constraint_errors of the three entities.  A database error e carries
\* its kind and the constraint's name ("" when none is reported); any other
\* sqlx error carries its kind alone.
map_constraint_errors(k, e, row) ==
    CASE k = "Save" ->
            IF e.kind = "UniqueViolation" /\ e.constraint = "saves_name_key"
            THEN TrackerError("Duplicate", "Save", <<FieldValue("name", row.name)>>)
            ELSE IF e.kind = "UniqueViolation" /\ e.constraint = "saves_id_pkey"
            THEN TrackerError("Duplicate", "Save", <<FieldValue("id", row.id)>>)
            ELSE SqlError(e)
      [] k = "SolarSystem" ->
            IF e.kind = "UniqueViolation" /\ e.constraint = "solar_systems_save_id_name_key"
            THEN TrackerError("Duplicate", "SolarSystem",
                              <<FieldValue("save_id", row.parent), FieldValue("name", row.name)>>)
            ELSE IF e.kind = "ForeignKeyViolation" /\ e.constraint = "solar_systems_save_id_fkey"
            THEN TrackerError("NotFound", "Save", <<FieldValue("id", row.parent)>>)
            ELSE SqlError(e)
      [] k = "Star" ->
            IF e.kind = "UniqueViolation" /\ e.constraint = "stars_solar_system_id_key"
            THEN TrackerError("Duplicate", "Star", <<FieldValue("solar_system_id", row.parent)>>)
            ELSE IF e.kind = "ForeignKeyViolation" /\ e.constraint = "stars_solar_system_id_fkey"
            THEN TrackerError("NotFound", "SolarSystem", <<FieldValue("id", row.parent)>>)
            ELSE SqlError(e)

\* lookup: the row, or NotFound of the kind with the id.
lookup(h, id) ==
    IF Visible(h, id).exists THEN Ok(Visible(h, id))
    ELSE Err(TrackerError("NotFound", kind, <<FieldValue("id", id)>>))

\* update_handler's patch of the looked-up entity: a save's name and mining
\* speed, a solar system's name and notes, a star's class, luminosity, radius.
Patch(row, r) ==
    [row EXCEPT !.name = IF r.name # None /\ kind # "Star" THEN r.name[1] ELSE @,
                !.data = IF r.data # None THEN r.data[1] ELSE @]

\* Mutant: the UPDATE's WHERE clause names the id alone.
WhereIdOnly(cur, e) == cur.exists

\* and_where(Id.eq(e.id)).and_where(Version.eq(e.version)) on the stored row.
WhereMatches(cur, e) == cur.exists /\ cur.version = e.version

\* Mutant: the SET clause leaves the version as it is.
SetClauseSameVersion(cur, e) ==
    [cur EXCEPT !.updated_at = Some("now"),
                !.name = e.name,
                !.data = e.data]

\* The UPDATE's SET clause applied to the stored row.
SetClause(cur, e) ==
    [cur EXCEPT !.updated_at = Some("now"),
                !.version = @ + 1,
                !.name = e.name,
                !.data = e.data]

CreateRequests ==
    {[op |-> "create", parent |-> p, name |-> n, data |-> d] :
        p \in (IF kind = "Save" THEN {0} ELSE ParentIds),
        n \in (IF kind = "Star" THEN {""} ELSE Names), d \in Data}
UpdateRequests ==
    {[op |-> "update", id |-> i, name |-> n, data |-> d] :
        i \in Ids, n \in (IF kind = "Star" THEN {None} ELSE Opt(Names)), d \in Opt(Data)}
IdRequests == {[op |-> o, id |-> i] : o \in {"lookup", "delete"}, i \in Ids}

Free(h) == pc[h] \in {"idle", "done", "built"} /\ started < MaxRequests

Start(h, r, e, next) ==
    /\ started' = started + 1
    /\ req' = [req EXCEPT ![h] = r]
    /\ ent' = [ent EXCEPT ![h] = e]
    /\ pc' = [pc EXCEPT ![h] = next]
    /\ tx' = [tx EXCEPT ![h] = None]
    /\ result' = [result EXCEPT ![h] = NoResult]
    /\ UNCHANGED <<kind, rows, call, ret, steps>>

\* create_handler up to domain::create: begin, then new(..).
BeginCreate(h) ==
    /\ Free(h) /\ nextId <= MaxId
    /\ \E r \in CreateRequests :
          Start(h, r, new(nextId, r.parent, r.name, r.data), "insert")
    /\ nextId' = nextId + 1

\* update_handler, lookup_handler and delete_handler up to their first statement.
BeginUpdate(h) ==
    /\ Free(h)
    /\ \E r \in UpdateRequests : Start(h, r, NoRow, "lookup")
    /\ UNCHANGED nextId

BeginLookupOrDelete(h) ==
    /\ Free(h)
    /\ \E r \in IdRequests : Start(h, r, NoRow, r.op)
    /\ UNCHANGED nextId

\* Mutant: the error is returned with the transaction left as it is.
FailHoldingTransaction(h, e) ==
    /\ result' = [result EXCEPT ![h] = Err(e)]
    /\ tx' = tx
    /\ pc' = [pc EXCEPT ![h] = "done"]

\* The handler returns an error: the transaction is dropped (rolled back).
Fail(h, e) ==
    /\ result' = [result EXCEPT ![h] = Err(e)]
    /\ tx' = [tx EXCEPT ![h] = None]
    /\ pc' = [pc EXCEPT ![h] = "done"]

\* domain::create's INSERT.
Insert(h) ==
    /\ pc[h] = "insert"
    /\ ~KeyLockedByOther(h, UniqueKey(kind, ent[h]))
    /\ LET row == ent[h]
           e == ConstraintError(row)
       IN IF e # None
          THEN Fail(h, map_constraint_errors(kind, e[1], ent[h]))
          ELSE /\ tx' = [tx EXCEPT ![h] = Some([id |-> row.id, row |-> row])]
               /\ pc' = [pc EXCEPT ![h] = "relookup"]
               /\ UNCHANGED result
    /\ UNCHANGED <<kind, rows, nextId, started, req, ent, call, ret, steps>>

\* domain::lookup as the first statement of update_handler and lookup_handler.
Lookup(h) ==
    /\ pc[h] = "lookup"
    /\ LET r == lookup(h, req[h].id) IN
       IF r.tag = "Err"
       THEN Fail(h, r.err) /\ UNCHANGED ent
       ELSE /\ ent' = [ent EXCEPT ![h] = IF req[h].op = "update" THEN Patch(r.val, req[h])
                                         ELSE r.val]
            /\ pc' = [pc EXCEPT ![h] = IF req[h].op = "update" THEN "update" ELSE "commit"]
            /\ UNCHANGED <<tx, result>>
    /\ UNCHANGED <<kind, rows, nextId, started, req, call, ret, steps>>

\* domain::update's UPDATE and its rows_affected test.
Update(h) ==
    /\ pc[h] = "update"
    /\ ~LockedByOther(h, ent[h].id)
    /\ LET cur == Visible(h, ent[h].id)
           e == ConstraintError(SetClause(cur, ent[h]))
       IN IF ~WhereMatches(cur, ent[h])
          THEN Fail(h, TrackerError("ConcurrentUpdate", kind, <<FieldValue("id", ent[h].id)>>))
          ELSE /\ ~KeyLockedByOther(h, UniqueKey(kind, SetClause(cur, ent[h])))
               /\ IF e # None
                  THEN Fail(h, map_constraint_errors(kind, e[1], ent[h]))
                  ELSE /\ tx' = [tx EXCEPT ![h] = Some([id |-> cur.id, row |-> SetClause(cur, ent[h])])]
                       /\ pc' = [pc EXCEPT ![h] = "relookup"]
                       /\ UNCHANGED result
    /\ UNCHANGED <<kind, rows, nextId, started, req, ent, call, ret, steps>>

\* What the lookup of the row just written can return: the row, or nothing
\* when the row is gone by means outside the transactions modelled here (the
\* case UnexpectedNotFound exists for).
PostWriteLookup(h, id) ==
    {lookup(h, id), Err(TrackerError("NotFound", kind, <<FieldValue("id", id)>>))}

\* The lookup that ends domain::create (a miss is UnexpectedNotFound) and
\* domain::update (a miss stays NotFound).
Relookup(h) ==
    /\ pc[h] = "relookup"
    /\ \E r \in PostWriteLookup(h, ent[h].id) :
       IF r.tag = "Err"
       THEN Fail(h, IF req[h].op = "create" THEN not_found_unexpected(r.err) ELSE r.err)
            /\ UNCHANGED ent
       ELSE /\ ent' = [ent EXCEPT ![h] = r.val]
            /\ pc' = [pc EXCEPT ![h] = "commit"]
            /\ UNCHANGED <<tx, result>>
    /\ UNCHANGED <<kind, rows, nextId, started, req, call, ret, steps>>

\* Mutant: a DELETE that affected no row is reported as NotFound.
DeleteOrNotFound(h) ==
    /\ pc[h] = "delete"
    /\ ~LockedByOther(h, req[h].id)
    /\ IF Visible(h, req[h].id).exists
       THEN /\ tx' = [tx EXCEPT ![h] = Some([id |-> req[h].id, row |-> NoRow])]
            /\ pc' = [pc EXCEPT ![h] = "commit"]
            /\ UNCHANGED result
       ELSE Fail(h, TrackerError("NotFound", kind, <<FieldValue("id", req[h].id)>>))
    /\ UNCHANGED <<kind, rows, nextId, started, req, ent, call, ret, steps>>

\* domain::delete's DELETE.
Delete(h) ==
    /\ pc[h] = "delete"
    /\ ~LockedByOther(h, req[h].id)
    /\ tx' = [tx EXCEPT ![h] = IF Visible(h, req[h].id).exists
                                THEN Some([id |-> req[h].id, row |-> NoRow]) ELSE None]
    /\ pc' = [pc EXCEPT ![h] = "commit"]
    /\ UNCHANGED <<kind, rows, nextId, started, req, ent, result, call, ret, steps>>

\* transaction.commit() and the handler's Ok(response).
Commit(h) ==
    /\ pc[h] = "commit"
    /\ rows' = IF tx[h] = None THEN rows ELSE [rows EXCEPT ![tx[h][1].id] = tx[h][1].row]
    /\ tx' = [tx EXCEPT ![h] = None]
    /\ result' = [result EXCEPT ![h] = Ok(ent[h])]
    /\ pc' = [pc EXCEPT ![h] = "done"]
    /\ UNCHANGED <<kind, nextId, started, req, ent, call, ret, steps>>

DbIdle ==
    /\ rows = [i \in Ids |-> NoRow]
    /\ nextId = 1
    /\ started = 0
    /\ pc = [h \in Handlers |-> "idle"]
    /\ req = [h \in Handlers |-> [op |-> "none"]]
    /\ ent = [h \in Handlers |-> NoRow]
    /\ tx = [h \in Handlers |-> None]
    /\ result = [h \in Handlers |-> NoResult]
    /\ steps = <<>>

Init ==
    /\ kind \in Kinds
    /\ DbIdle
    /\ call = [fn |-> "none"]
    /\ ret = [tag |-> "None"]

Next ==
    \E h \in Handlers :
        \/ BeginCreate(h)
        \/ BeginUpdate(h)
        \/ BeginLookupOrDelete(h)
        \/ Insert(h)
        \/ Lookup(h)
        \/ Update(h)
        \/ Relookup(h)
        \/ Delete(h)
        \/ Commit(h)

Spec == Init /\ [][Next]_vars

(***************************************************************************)
(* The list endpoints: search_handler of saves and of solar systems and    *)
(* the domain search it calls, with the storage-layer steps they take.     *)
(***************************************************************************)
SearchType == IF kind = "Save" THEN "SaveFields" ELSE "SolarSystemFields"

\* The queries of a list request.
SearchPageTexts == {"1", "0", "x"}
SearchSizeTexts == {"10", "x"}
SearchSortTokens == {"name:desc", "bogus", "name:up"}
SearchCalls ==
    {[fn |-> "search", raw |-> [page |-> p, size |-> s, sorts |-> sorts]] :
        p \in Opt(SearchPageTexts), s \in Opt(SearchSizeTexts),
        sorts \in UNION {[1..n -> SearchSortTokens] : n \in 0..MaxSorts}}

\* search_handler: data.db.begin().await?, which can fail for want of a connection.
SearchBegin(h) ==
    /\ pc[h] = "idle" /\ started = 0 /\ call.fn = "search"
    /\ started' = 1
    /\ \/ /\ steps' = Append(steps, "begin")
          /\ pc' = [pc EXCEPT ![h] = "try_from"]
          /\ UNCHANGED result
       \/ /\ result' = [result EXCEPT ![h] = Err(SqlError([kind |-> "PoolTimedOut"]))]
          /\ pc' = [pc EXCEPT ![h] = "done"]
          /\ UNCHANGED steps
    /\ UNCHANGED <<kind, rows, nextId, req, ent, tx, call, ret>>

\* search_handler: PageRequest::try_from(query)? (SearchRequest::try_from); an
\* error returns, dropping the transaction.
AfterTryFrom(h, r) ==
    IF r.tag = "Err"
    THEN /\ result' = [result EXCEPT ![h] = r]
         /\ steps' = Append(steps, "rollback")
         /\ pc' = [pc EXCEPT ![h] = "done"]
         /\ UNCHANGED req
    ELSE /\ req' = [req EXCEPT ![h] = r.val]
         /\ pc' = [pc EXCEPT ![h] = "count"]
         /\ UNCHANGED <<result, steps>>

SearchTryFrom(h) ==
    /\ pc[h] = "try_from"
    /\ AfterTryFrom(h, PageRequest_try_from(SearchType, call.raw))
    /\ UNCHANGED <<kind, rows, nextId, started, ent, tx, call, ret>>

\* search: the count query is built and executed.
SearchCount(h) ==
    /\ pc[h] = "count"
    /\ steps' = Append(steps, "count")
    /\ ent' = [ent EXCEPT ![h] = U64(Cardinality({i \in Ids : rows[i].exists}))]
    /\ pc' = [pc EXCEPT ![h] = "select"]
    /\ UNCHANGED <<kind, rows, nextId, started, req, tx, result, call, ret>>

\* search: the select with limit, offset() and sorts is built and executed and
\* the page assembled (the table is empty here: no rows come back).
SearchSelect(h) ==
    /\ pc[h] = "select"
    /\ \E o \in offset(req[h]) :
          IF o = Panic
          THEN /\ result' = [result EXCEPT ![h] = Panic]
               /\ steps' = Append(steps, "rollback")
               /\ pc' = [pc EXCEPT ![h] = "done"]
               /\ UNCHANGED ent
          ELSE /\ steps' = Append(steps, "select")
               /\ ent' = [ent EXCEPT ![h] =
                            [data |-> <<>>,
                             metadata |-> PageMetadata_new(req[h].page, req[h].size, ent[h])]]
               /\ pc' = [pc EXCEPT ![h] = "search_commit"]
               /\ UNCHANGED result
    /\ UNCHANGED <<kind, rows, nextId, started, req, tx, call, ret>>

\* search_handler: transaction.commit() and Ok(response).
SearchCommit(h) ==
    /\ pc[h] = "search_commit"
    /\ steps' = Append(steps, "commit")
    /\ result' = [result EXCEPT ![h] = Ok(ent[h])]
    /\ pc' = [pc EXCEPT ![h] = "done"]
    /\ UNCHANGED <<kind, rows, nextId, started, req, ent, tx, call, ret>>

InitSearch ==
    /\ kind \in {"Save", "SolarSystem"}
    /\ DbIdle
    /\ call \in SearchCalls
    /\ ret = [tag |-> "None"]

NextSearch ==
    \E h \in Handlers :
        \/ SearchBegin(h)
        \/ SearchTryFrom(h)
        \/ SearchCount(h)
        \/ SearchSelect(h)
        \/ SearchCommit(h)

SpecSearch == InitSearch /\ [][NextSearch]_vars

\* All the handlers: a run of the create, update, lookup and delete handlers
\* on the store, or a run of a list endpoint.
InitHandlers == Init \/ InitSearch
NextHandlers ==
    \/ call.fn = "none" /\ Next
    \/ call.fn = "search" /\ NextSearch
SpecHandlers == InitHandlers /\ [][NextHandlers]_vars

(***************************************************************************)
(* TrackerError: its class, code, status and rendering (error.rs).         *)
(* An error is a record with its kind and payload: NotFound,               *)
(* UnexpectedNotFound, Duplicate and ConcurrentUpdate carry object and     *)
(* keys, InvalidFieldValue field, value and allowed values,                *)
(* MissingRequiredField a name, the four wrappers their source.            *)
(***************************************************************************)
ObjectKinds == {"Save", "SolarSystem", "Star", "Planet", "PlanetType", "Item", "ItemRecipe"}

\* The variants of actix's JsonPayloadError; Payload wraps a PayloadError.
JsonPayloadErrors ==
    {[variant |-> v] : v \in {"OverflowKnownLength", "Overflow", "ContentType",
                              "Deserialize", "Serialize"}}
    \cup {[variant |-> "Payload", payload |-> pe] :
            pe \in {"Incomplete", "EncodingCorrupted", "Overflow", "UnknownLength", "Io"}}

JsonError(e) == [kind |-> "JsonError", source |-> e]
QueryStringError(e) == [kind |-> "QueryStringError", source |-> e]
PathError(e) == [kind |-> "PathError", source |-> e]
missing_field(field, allowed) ==
    [kind |-> "MissingRequiredField", field |-> field, allowed |-> allowed]

\* Mutant: only the storage error counts as internal.
IsSqlErrorOnly(e) == e.kind = "SqlError"

is_internal_server_error(e) ==
    CASE e.kind \in {"UnexpectedNotFound", "SqlError"} -> TRUE
      [] e.kind = "JsonError" -> e.source.variant = "Serialize"
      [] OTHER -> FALSE

error_code(e) ==
    CASE e.kind \in {"NotFound", "Duplicate", "InvalidFieldValue", "MissingRequiredField",
                     "ConcurrentUpdate"} -> e.kind
      [] e.kind = "JsonError" ->
            (CASE e.source.variant = "ContentType" -> "UnsupportedContentType"
               [] e.source.variant = "Serialize" -> "InternalServerError"
               [] e.source.variant = "Deserialize" -> "InvalidJson"
               [] e.source.variant \in {"Overflow", "OverflowKnownLength"} -> "PayloadTooLarge"
               [] e.source.variant = "Payload" -> "InvalidPayload"
               [] OTHER -> "UnknownPayloadError")
      [] e.kind = "QueryStringError" -> "InvalidQueryString"
      [] e.kind = "PathError" -> "InvalidUrlPath"
      [] OTHER -> "InternalServerError"

\* Display: the #[error] format of the variant with its arguments.
to_string(e) ==
    CASE e.kind = "NotFound" ->
            [format |-> "No {0} exists with {1}.", args |-> <<e.object, e.keys>>]
      [] e.kind = "UnexpectedNotFound" ->
            [format |-> "Unexpectedly did not find {0} with {1}.", args |-> <<e.object, e.keys>>]
      [] e.kind = "Duplicate" ->
            [format |-> "A {0} with the {1} already exists.", args |-> <<e.object, e.keys>>]
      [] e.kind = "InvalidFieldValue" ->
            [format |-> "The value {} for the field {} is invalid. {1}",
             args |-> <<e.value, e.field, e.allowed>>]
      [] e.kind = "MissingRequiredField" ->
            [format |-> "Missing required field {0}. {1}", args |-> <<e.field, e.allowed>>]
      [] e.kind = "ConcurrentUpdate" ->
            [format |-> "Another transaction has already updated the {0} with {1}. Please try again.",
             args |-> <<e.object, e.keys>>]
      [] OTHER -> [format |-> "{0}", args |-> <<e.source>>]

InternalServerErrorMessage == [format |-> "An Internal Server Error occurred.", args |-> <<>>]

\* Mutant: UnexpectedNotFound is rendered with the object and keys it carries.
to_error_response_like_not_found(e) ==
    LET hasObject == e.kind \in {"NotFound", "UnexpectedNotFound", "Duplicate", "ConcurrentUpdate"}
        hasField == e.kind \in {"InvalidFieldValue", "MissingRequiredField"}
    IN [error_code |-> error_code(e),
        message |-> IF is_internal_server_error(e) THEN InternalServerErrorMessage
                    ELSE to_string(e),
        object |-> IF hasObject THEN Some(e.object) ELSE None,
        keys |-> IF hasObject THEN Some(e.keys) ELSE None,
        field |-> CASE e.kind = "InvalidFieldValue" -> Some(FieldValue(e.field, e.value))
                    [] e.kind = "MissingRequiredField" -> Some(FieldValue(e.field, None))
                    [] OTHER -> None,
        allowed_values |-> IF hasField THEN Some(e.allowed) ELSE None]

to_error_response(e) ==
    LET hasObject == e.kind \in {"NotFound", "Duplicate", "ConcurrentUpdate"}
        hasField == e.kind \in {"InvalidFieldValue", "MissingRequiredField"}
    IN [error_code |-> error_code(e),
        message |-> IF is_internal_server_error(e) THEN InternalServerErrorMessage
                    ELSE to_string(e),
        object |-> IF hasObject THEN Some(e.object) ELSE None,
        keys |-> IF hasObject THEN Some(e.keys) ELSE None,
        field |-> CASE e.kind = "InvalidFieldValue" -> Some(FieldValue(e.field, e.value))
                    [] e.kind = "MissingRequiredField" -> Some(FieldValue(e.field, None))
                    [] OTHER -> None,
        allowed_values |-> IF hasField THEN Some(e.allowed) ELSE None]

\* actix's status of a JsonPayloadError (json_err.status_code()).
JsonPayloadError_status_code(j) ==
    CASE j.variant \in {"OverflowKnownLength", "Overflow"} -> 413
      [] j.variant = "Serialize" -> 500
      [] j.variant = "Payload" -> (IF j.payload = "Overflow" THEN 413 ELSE 400)
      [] OTHER -> 400

\* Mutant: a concurrent update is reported as a bad request.
status_code_conflict_as_400(e) ==
    CASE e.kind = "NotFound" -> 404
      [] e.kind = "Duplicate" -> 409
      [] e.kind \in {"InvalidFieldValue", "MissingRequiredField", "ConcurrentUpdate"} -> 400
      [] e.kind \in {"SqlError", "UnexpectedNotFound"} -> 500
      [] e.kind = "JsonError" ->
            (IF e.source.variant = "ContentType" THEN 415
             ELSE JsonPayloadError_status_code(e.source))
      [] e.kind = "QueryStringError" -> 400
      [] e.kind = "PathError" -> 404

status_code(e) ==
    CASE e.kind = "NotFound" -> 404
      [] e.kind = "Duplicate" -> 409
      [] e.kind \in {"InvalidFieldValue", "MissingRequiredField"} -> 400
      [] e.kind = "ConcurrentUpdate" -> 409
      [] e.kind \in {"SqlError", "UnexpectedNotFound"} -> 500
      [] e.kind = "JsonError" ->
            (IF e.source.variant = "ContentType" THEN 415
             ELSE JsonPayloadError_status_code(e.source))
      [] e.kind = "QueryStringError" -> 400
      [] e.kind = "PathError" -> 404

\* ResponseError::error_response
error_response(e) == [status |-> status_code(e), body |-> to_error_response(e)]

(***************************************************************************)
(* Inputs of the pure calls.                                               *)
(***************************************************************************)
\* s with the letters at the positions in mask in upper case, the rest as is.
RECURSIVE ApplyCaseFrom(_, _, _)
ApplyCaseFrom(s, mask, i) ==
    IF i > Len(s) THEN ""
    ELSE (IF i \in mask THEN UpperChar(CharAt(s, i)) ELSE CharAt(s, i))
         \o ApplyCaseFrom(s, mask, i + 1)

ApplyCase(s, mask) == ApplyCaseFrom(s, mask, 1)

\* No letter, every letter, or one letter of s in upper case.
CaseMasks(s) == {{}, 1..Len(s)} \cup {{i} : i \in 1..Len(s)}

Range(seq) == {seq[i] : i \in 1..Len(seq)}

\* Texts around the nested prefixes: a head, what follows it, and a rest.
TextHeads == {"", "save", "SAVE", "Solar_System", "solar_system.save", "sav", "id"}
TextSeps == {"", ".", "x", "_"}
TextRests == {"", "id", "Name", "created_at", "bogus", "save", "save.", "save.notes", "."}
FieldTexts == {h \o s \o r : h \in TextHeads, s \in TextSeps, r \in TextRests}

\* Raw sort tokens: a field text, then nothing or ':' and a direction text.
TokenFields == {"name", "ID", "bogus", "", "save.name", "save.Bogus", "created_at",
                "solar_system.save.id", "luminosity"}
TokenDirs == {"", ":", ":asc", ":DESC", ":Desc", ":up", ":asc:desc", "::asc", ":as"}
SortTokens == {f \o d : f \in TokenFields, d \in TokenDirs}

\* Raw page and size texts.
PageTexts == {"0", "1", "007", "+3", "-1", "", "1.5",
              "18446744073709551615", "18446744073709551616"}
SizeTexts == {"0", "1", "499", "500", "501", "10000", "x",
              "18446744073709551615", "18446744073709551616"}

\* The sort tokens a page request is drawn from, and the lists of them.
PageSortTokens == {"name:desc", "id", "bogus", "save.name:asc", "name:up"}
SeqsUpTo(S, n) == UNION {[1..k -> S] : k \in 0..n}

\* The sort directives add_sorts is given: any member with any direction.
Directives(T) == {[field |-> f, direction |-> d] : f \in Range(values(T)), d \in Range(SortDirections)}

EmptyStatement == [select_stmt |-> <<>>, joins_tracker |-> <<>>]

(***************************************************************************)
(* The pure calls: Init draws a call and its arguments, the action applies *)
(* the function and records what it returned.                              *)
(***************************************************************************)
Pending == [tag |-> "Pending"]

\* parse_text(to_text(f)) under a change of case.
NameCalls ==
    UNION {UNION {{[fn |-> "from_str", type |-> T, text |-> ApplyCase(name(T, f), m), of |-> Some(f)] :
                        m \in CaseMasks(name(T, f))} :
                  f \in Range(values(T))} :
           T \in FieldTypes}

\* parse_text of any text.
TextCalls ==
    {[fn |-> "from_str", type |-> T, text |-> s, of |-> None] : T \in FieldTypes, s \in FieldTexts}

SortCalls ==
    {[fn |-> "Sort::try_from", type |-> T, value |-> tok] : T \in FieldTypes, tok \in SortTokens}

PageCalls ==
    {[fn |-> "PageRequest::try_from", type |-> T, raw |-> [page |-> p, size |-> s, sorts |-> sorts]] :
        T \in FieldTypes, p \in Opt(PageTexts), s \in Opt(SizeTexts),
        sorts \in SeqsUpTo(PageSortTokens, MaxSorts)}

JoinCalls ==
    {[fn |-> "add_sorts", sorts |-> sorts] :
        sorts \in SeqsUpTo(Directives("SolarSystemFields"), MaxDirectives)}

\* T::values(), called again and again on one enumeration.
ValuesCalls == {[fn |-> "values", type |-> T] : T \in FieldTypes}

ApplyFromStr ==
    /\ call.fn = "from_str" /\ ret = Pending
    /\ ret' = from_str(call.type, call.text)
    /\ UNCHANGED <<call, dbVars>>

\* One call of values(): the first call fills the static VALUES with the
\* closure's vector, every call returns the copies of what VALUES holds.
ApplyValues ==
    /\ call.fn = "values"
    /\ IF ret = Pending
       THEN ret' = [tag |-> "Values", VALUES |-> values(call.type),
                    val |-> values(call.type), calls |-> 1]
       ELSE /\ ret.calls < MaxCalls
            /\ ret' = [ret EXCEPT !.val = ret.VALUES, !.calls = @ + 1]
    /\ UNCHANGED <<call, dbVars>>

ApplySortTryFrom ==
    /\ call.fn = "Sort::try_from" /\ ret = Pending
    /\ ret' = Sort_try_from(call.type, call.value)
    /\ UNCHANGED <<call, dbVars>>

ApplyPageRequestTryFrom ==
    /\ call.fn = "PageRequest::try_from" /\ ret = Pending
    /\ ret' = PageRequest_try_from(call.type, call.raw)
    /\ UNCHANGED <<call, dbVars>>

\* search: offset() of the request the normalizer returned.
ApplyOffset ==
    /\ call.fn = "PageRequest::try_from" /\ ret.tag = "Ok"
    /\ \E o \in offset(ret.val) :
          ret' = [tag |-> "Offset", request |-> ret.val, offset |-> o]
    /\ UNCHANGED <<call, dbVars>>

ApplyAddSorts ==
    /\ call.fn = "add_sorts" /\ ret = Pending
    /\ ret' = add_sorts(EmptyStatement, call.sorts)
    /\ UNCHANGED <<call, dbVars>>

InitFields ==
    kind = "Save" /\ DbIdle /\ ret = Pending /\ call \in NameCalls \cup TextCalls \cup ValuesCalls
SpecFields == InitFields /\ [][ApplyFromStr \/ ApplyValues]_vars

\* PageMetadata::new on the pages, sizes and row counts of a search.
MetaPages == {1, 2, 3, 4, 16777216, 16777217}
MetaSizes == {0, 1, 2, 3, 7, 10, 100, 499, 500}
MetaTotals == {0, 1, 2, 9, 10, 11, 25, 30, 499, 500, 501, 1000, 16777215, 16777216,
               16777217, 16777218, 16777219, 33554431, 33554433, 1000000007}
MetaCalls ==
    {[fn |-> "PageMetadata::new", page |-> p, size |-> s, total |-> n] :
        p \in MetaPages, s \in MetaSizes, n \in MetaTotals}

ApplyPageMetadataNew ==
    /\ call.fn = "PageMetadata::new" /\ ret = Pending
    /\ ret' = PageMetadata_new(U64(call.page), U64(call.size), U64(call.total))
    /\ UNCHANGED <<call, dbVars>>

InitMeta == kind = "Save" /\ DbIdle /\ ret = Pending /\ call \in MetaCalls
SpecMeta == InitMeta /\ [][ApplyPageMetadataNew]_vars

\* The errors a handler can return, rendered by error_response.
ErrorKeys == {<<FieldValue("id", 1)>>, <<FieldValue("save_id", 1), FieldValue("name", "a")>>}
Errors ==
    {TrackerError(k, o, keys) :
        k \in {"NotFound", "UnexpectedNotFound", "Duplicate", "ConcurrentUpdate"},
        o \in ObjectKinds, keys \in ErrorKeys}
    \cup {invalid_field("sort:field", "bogus", ChoiceOfFields("SaveFields")),
          invalid_field("sort:direction", "up", ChoiceOfDirections),
          invalid_field("page", "x", IntegerMin1),
          missing_field("name", IntegerMin1)}
    \cup {SqlError(s) : s \in {[kind |-> "RowNotFound"], [kind |-> "PoolTimedOut"],
                                [kind |-> "UniqueViolation", constraint |-> "other_key"]}}
    \cup {JsonError(j) : j \in JsonPayloadErrors}
    \cup {QueryStringError(q) : q \in {"Deserialize"}}
    \cup {PathError(q) : q \in {"Deserialize"}}
ErrorCalls == {[fn |-> "error_response", err |-> e] : e \in Errors}

ApplyErrorResponse ==
    /\ call.fn = "error_response" /\ ret = Pending
    /\ ret' = error_response(call.err)
    /\ UNCHANGED <<call, dbVars>>

InitErrors == kind = "Save" /\ DbIdle /\ ret = Pending /\ call \in ErrorCalls
SpecErrors == InitErrors /\ [][ApplyErrorResponse]_vars

\* map_constraint_errors on the errors a statement can raise, then rendered.
ConstraintNames ==
    {"saves_name_key", "saves_id_pkey", "solar_systems_save_id_name_key",
     "solar_systems_save_id_fkey", "stars_solar_system_id_key",
     "stars_solar_system_id_fkey", "solar_systems_pkey", ""}
StatementErrors ==
    {[kind |-> v, constraint |-> c] :
        v \in {"UniqueViolation", "ForeignKeyViolation", "NotNullViolation",
               "CheckViolation", "Other"},
        c \in ConstraintNames}
    \cup {[kind |-> "PoolTimedOut"], [kind |-> "Io"]}
ConstraintCalls ==
    {[fn |-> "map_constraint_errors", kind |-> k, err |-> e,
      entity |-> new(i, IF k = "Save" THEN 0 ELSE p, n, 0)] :
        k \in Kinds, e \in StatementErrors, i \in {1}, p \in ParentIds, n \in Names}

ApplyMapConstraintErrors ==
    /\ call.fn = "map_constraint_errors" /\ ret = Pending
    /\ ret' = [error |-> map_constraint_errors(call.kind, call.err, call.entity),
               response |-> error_response(
                                map_constraint_errors(call.kind, call.err, call.entity))]
    /\ UNCHANGED <<call, dbVars>>

InitConstraints == kind = "Save" /\ DbIdle /\ ret = Pending /\ call \in ConstraintCalls
SpecConstraints == InitConstraints /\ [][ApplyMapConstraintErrors]_vars

InitSort == kind = "Save" /\ DbIdle /\ ret = Pending /\ call \in SortCalls
SpecSort == InitSort /\ [][ApplySortTryFrom]_vars

InitPage == kind = "Save" /\ DbIdle /\ ret = Pending /\ call \in PageCalls
SpecPage == InitPage /\ [][ApplyPageRequestTryFrom \/ ApplyOffset]_vars

InitJoins == kind = "Save" /\ DbIdle /\ ret = Pending /\ call \in JoinCalls
SpecJoins == InitJoins /\ [][ApplyAddSorts]_vars

(***************************************************************************)
(* Two solar-system searches building their statements at the same time.   *)
(* search() owns its statement and its joins_tracker (locals of the call); *)
(* a handler interleaves with the other between the turns of add_sorts.    *)
(***************************************************************************)
\* The sort lists of the searches: leaf and Save(..) directives.
BuildDirectives ==
    { [field |-> <<"Id">>, direction |-> "asc"],
      [field |-> <<"Name">>, direction |-> "desc"],
      [field |-> <<"Save", "Id">>, direction |-> "asc"],
      [field |-> <<"Save", "Name">>, direction |-> "desc"] }
BuildSorts == SeqsUpTo(BuildDirectives, MaxSorts)

\* The number of directives add_sorts has gone through.
Turns(stmt) == Cardinality({i \in 1..Len(stmt) : stmt[i].clause = "order_by"})

\* Mutant: one tracker for the whole process, shared by the searches.
ProcessTracker(h) ==
    LET g == CHOOSE x \in Handlers : x # h IN
    IF pc[g] \in {"add_sorts", "built"}
    THEN ent[h].joins_tracker \o ent[g].joins_tracker
    ELSE ent[h].joins_tracker

\* The tracker add_sorts is handed: the local of this call of search.
joins_tracker(h) == ent[h].joins_tracker

\* search: let mut joins_tracker = Vec::new(); ... let mut select_stmt = Query::select()
SolarSearchBuild(h) ==
    /\ call.fn = "build" /\ Free(h)
    /\ \E sorts \in BuildSorts : Start(h, sorts, EmptyStatement, "add_sorts")
    /\ UNCHANGED nextId

\* add_sorts: one turn of the loop over page_req.sorts.
SolarSearchAddSort(h) ==
    /\ pc[h] = "add_sorts"
    /\ Turns(ent[h].select_stmt) < Len(req[h])
    /\ ent' = [ent EXCEPT ![h] =
                  AddSort([select_stmt |-> ent[h].select_stmt,
                           joins_tracker |-> joins_tracker(h)],
                          req[h][Turns(ent[h].select_stmt) + 1])]
    /\ UNCHANGED <<kind, rows, nextId, started, pc, req, tx, result, call, ret, steps>>

\* search: select_stmt.build_sqlx(..) once add_sorts returned.
SolarSearchBuilt(h) ==
    /\ pc[h] = "add_sorts"
    /\ Turns(ent[h].select_stmt) = Len(req[h])
    /\ result' = [result EXCEPT ![h] = Ok(ent[h].select_stmt)]
    /\ pc' = [pc EXCEPT ![h] = "built"]
    /\ UNCHANGED <<kind, rows, nextId, started, req, ent, tx, call, ret, steps>>

InitBuild ==
    /\ kind = "SolarSystem"
    /\ DbIdle
    /\ call = [fn |-> "build"]
    /\ ret = [tag |-> "None"]

NextBuild ==
    \E h \in Handlers :
        \/ SolarSearchBuild(h)
        \/ SolarSearchAddSort(h)
        \/ SolarSearchBuilt(h)

SpecBuild == InitBuild /\ [][NextBuild]_vars

(***************************************************************************)
(* Claims about the join tracker (SpecJoins).                              *)
(***************************************************************************)
Returned == ret # Pending

\* The positions of the statement's joins to the saves relation.
SaveJoins(stmt) ==
    {i \in 1..Len(stmt) : stmt[i].clause = "left_join" /\ stmt[i].table = "saves"}

\* The positions of the directives that are Save(..) variants.
SaveDirectives(sorts) == {i \in 1..Len(sorts) : Head(sorts[i].field) = "Save"}

\* C2: whatever the list of sort directives given to the solar-system add_sorts,
\* the statement gets at most one join to the saves relation; save.name:asc
\* followed by save.created_at:desc gives exactly one.
C2_AtMostOneSaveJoin ==
    (call.fn = "add_sorts" /\ Returned) =>
        /\ Cardinality(SaveJoins(ret.select_stmt)) <= 1
        /\ (call.sorts = << [field |-> <<"Save", "Name">>, direction |-> "asc"],
                            [field |-> <<"Save", "CreatedAt">>, direction |-> "desc"] >>
                => Cardinality(SaveJoins(ret.select_stmt)) = 1)

\* Two or more Save(..) directives were processed and one join came out.
C2_Witness ==
    /\ call.fn = "add_sorts" /\ Returned
    /\ Cardinality(SaveDirectives(call.sorts)) >= 2
    /\ Cardinality(SaveJoins(ret.select_stmt)) = 1

IsOrderBy(c) == c.clause = "order_by"

\* C20: after add_sorts the statement joins saves if and only if some
\* directive is a Save(..) variant; the join is emitted at the first such
\* directive, right before that directive's ORDER BY term; the ORDER BY terms
\* are one per directive, in input order; leaf-only directives give no join.
C20_JoinAtFirstUse ==
    (call.fn = "add_sorts" /\ Returned) =>
        LET stmt == ret.select_stmt
            firsts == {i \in SaveDirectives(call.sorts) :
                          \A j \in SaveDirectives(call.sorts) : i <= j}
        IN /\ (SaveJoins(stmt) # {}) <=> (SaveDirectives(call.sorts) # {})
           /\ SelectSeq(stmt, IsOrderBy) =
                 [i \in 1..Len(call.sorts) |->
                    [clause |-> "order_by",
                     column |-> column("SolarSystemFields", call.sorts[i].field),
                     order |-> call.sorts[i].direction]]
           /\ \A k \in firsts :
                 /\ SaveJoins(stmt) = {k}
                 /\ stmt[k + 1] = [clause |-> "order_by",
                                   column |-> column("SolarSystemFields", call.sorts[k].field),
                                   order |-> call.sorts[k].direction]

\* A leaf directive, then two Save(..) directives: the join is the second clause.
C20_Witness ==
    /\ call.fn = "add_sorts" /\ Returned
    /\ Len(call.sorts) = 3
    /\ SaveDirectives(call.sorts) = {2, 3}
    /\ SaveJoins(ret.select_stmt) = {2}
    /\ Len(ret.select_stmt) = 4

\* The relation paths a field of type T goes through, as dotted prefixes:
\* "save" for Save(..) of a solar system, "solar_system" and
\* "solar_system.save" for SolarSystem(Save(..)) of a star.
RECURSIVE RelationPaths(_, _)
RelationPaths(T, f) ==
    LET v == VariantOf(T, Head(f)) IN
    IF v.nested
    THEN {v.text} \cup {v.text \o "." \o p : p \in RelationPaths(v.sub, Tail(f))}
    ELSE {}

Normalized == call.fn = "PageRequest::try_from" /\ Returned /\ ret.tag = "Ok"

\* C3: whenever normalization succeeds the normalized size is at least 1.
C3_SizeAtLeastOne ==
    Normalized => ~U64Less(ret.val.size, <<1, 0, 0, 0>>)

\* C4: the normalized size never exceeds 500: absent gives 100, a parsed n <= 500
\* is kept, a parsed n > 500 (10000) becomes exactly 500 and is not rejected.
C4_SizeClamped ==
    /\ Normalized =>
        /\ ~U64Less(<<500, 0, 0, 0>>, ret.val.size)
        /\ call.raw.size = None => ret.val.size = <<100, 0, 0, 0>>
        /\ call.raw.size # None =>
              LET n == from_str_radix(call.raw.size[1]).val IN
              IF U64Less(<<500, 0, 0, 0>>, n)
              THEN ret.val.size = <<500, 0, 0, 0>>
              ELSE ret.val.size = n
        /\ call.raw.size = Some("10000") => ret.val.size = <<500, 0, 0, 0>>
        /\ call.raw.size = Some("499") => ret.val.size = <<499, 0, 0, 0>>
    /\ (call.fn = "PageRequest::try_from" /\ Returned /\ ret.tag = "Err"
            /\ ret.err.field = "size") => call.raw.size \notin {Some("501"), Some("10000"),
                                                               Some("18446744073709551615")}

\* A size of 10000 was normalized to 500.
C4_Witness ==
    Normalized /\ call.raw.size = Some("10000") /\ ret.val.size = <<500, 0, 0, 0>>

\* C5: whenever normalization succeeds the page is at least 1: absent gives 1,
\* a parsed 0 is raised to 1, a parsed n >= 1 is kept.
C5_PageAtLeastOne ==
    Normalized =>
        /\ ~U64Less(ret.val.page, <<1, 0, 0, 0>>)
        /\ call.raw.page = None => ret.val.page = <<1, 0, 0, 0>>
        /\ call.raw.page # None =>
              LET n == from_str_radix(call.raw.page[1]).val IN
              IF n = <<0, 0, 0, 0>> THEN ret.val.page = <<1, 0, 0, 0>> ELSE ret.val.page = n
        /\ call.raw.page = Some("007") => ret.val.page = <<7, 0, 0, 0>>
        /\ call.raw.page = Some("18446744073709551615")
              => ret.val.page = <<65535, 65535, 65535, 65535>>

\* A page of 0 was normalized to 1.
C5_Witness ==
    Normalized /\ call.raw.page = Some("0") /\ ret.val.page = <<1, 0, 0, 0>>

\* C6: on success the sorts are never empty: no token gives the one directive
\* {default field, ascending}; n >= 1 tokens give n directives, the i-th being
\* the parse of the i-th token.
C6_SortsInOrder ==
    Normalized =>
        /\ Len(ret.val.sorts) >= 1
        /\ call.raw.sorts = <<>> =>
              ret.val.sorts = << [field |-> <<"CreatedAt">>, direction |-> "asc"] >>
        /\ call.raw.sorts # <<>> =>
              /\ Len(ret.val.sorts) = Len(call.raw.sorts)
              /\ \A i \in 1..Len(call.raw.sorts) :
                    Sort_try_from(call.type, call.raw.sorts[i]) = Ok(ret.val.sorts[i])

\* Two tokens, the same one twice, came out as two directives.
C6_Witness ==
    /\ Normalized /\ call.type = "SolarSystemFields"
    /\ call.raw.sorts = <<"save.name:asc", "save.name:asc">>
    /\ ret.val.sorts = << [field |-> <<"Save", "Name">>, direction |-> "asc"],
                          [field |-> <<"Save", "Name">>, direction |-> "asc"] >>

TriedFrom == call.fn = "PageRequest::try_from" /\ Returned /\ ret.tag # "Offset"

\* A text that is not a base-10 unsigned integer: after one optional '+',
\* nothing is left or some character is not a digit.
NotDecimal(s) ==
    LET d == IF s # "" /\ CharAt(s, 1) = "+" THEN SubSeq(s, 2, Len(s)) ELSE s IN
    d = "" \/ \E i \in 1..Len(d) : ~IsDigit(CharAt(d, i))

BadPage == call.raw.page # None /\ NotDecimal(call.raw.page[1])
BadSize == call.raw.size # None /\ NotDecimal(call.raw.size[1])

\* InvalidFieldValue for field with the raw text, Integer from 1 inclusive, no maximum.
NotAnInteger(field, raw) ==
    Err([kind |-> "InvalidFieldValue", field |-> field, value |-> raw,
         allowed |-> [type |-> "Integer", min |-> [value |-> 1, inclusive |-> TRUE],
                      max |-> "None"]])

\* C23, as stated: a raw page (respectively size) that is present and is not a
\* base-10 unsigned integer makes normalization fail with InvalidFieldValue
\* for "page" (respectively "size"), carrying the raw text and Integer with
\* inclusive minimum 1 and no maximum.
C23_NotAnInteger ==
    TriedFrom =>
        /\ BadPage => ret = NotAnInteger("page", call.raw.page[1])
        /\ BadSize => ret = NotAnInteger("size", call.raw.size[1])

SortsParse ==
    \A i \in 1..Len(call.raw.sorts) : Sort_try_from(call.type, call.raw.sorts[i]).tag = "Ok"
PageParses == call.raw.page = None \/ from_str_radix(call.raw.page[1]).ok

\* C23, amended: such a page or size always makes normalization fail and no
\* PageRequest is produced; the failure is the InvalidFieldValue for "page"
\* when every sort token parsed, and the one for "size" when every sort token
\* parsed and the page is absent or parsed.
C23_NotAnIntegerInOrder ==
    TriedFrom =>
        /\ (BadPage \/ BadSize) => ret.tag = "Err"
        /\ (SortsParse /\ BadPage) => ret = NotAnInteger("page", call.raw.page[1])
        /\ (SortsParse /\ PageParses /\ BadSize) => ret = NotAnInteger("size", call.raw.size[1])

\* Page and size are both no integers, the sort tokens parse: the page is reported.
C23_Witness ==
    /\ TriedFrom /\ SortsParse /\ call.raw.sorts # <<>>
    /\ call.raw.page = Some("1.5") /\ call.raw.size = Some("x")
    /\ ret = NotAnInteger("page", "1.5")

(***************************************************************************)
(* Claims about Sort::try_from (SpecSort).                                 *)
(***************************************************************************)
SortParsed == call.fn = "Sort::try_from" /\ Returned

Colons(tok) == {i \in 1..Len(tok) : CharAt(tok, i) = ":"}
FirstColon(tok) ==
    IF Colons(tok) = {} THEN 0
    ELSE CHOOSE i \in Colons(tok) : \A j \in Colons(tok) : i <= j
\* The token's text before its first ':' (all of it when it has none), and after.
FieldText(tok) == IF FirstColon(tok) = 0 THEN tok ELSE SubSeq(tok, 1, FirstColon(tok) - 1)
DirText(tok) == IF FirstColon(tok) = 0 THEN "" ELSE SubSeq(tok, FirstColon(tok) + 1, Len(tok))

\* C7: a token is field_name(':' direction)?: the text before the first ':' (the
\* whole token without ':') is parsed as the field, the text after it is matched
\* against asc/desc ignoring case, no ':' means ascending; "name:desc" gives
\* {name, descending}.
C7_SortGrammar ==
    SortParsed =>
        LET tok == call.value
            f == from_str(call.type, FieldText(tok))
            d == to_ascii_lowercase(DirText(tok))
        IN /\ f.tag = "Panic" => ret.tag = "Panic"
           /\ f.tag = "Err" =>
                 ret.tag = "Err" /\ ret.err.field = "sort:field" /\ ret.err.value = FieldText(tok)
           /\ (f.tag = "Ok" /\ FirstColon(tok) = 0) =>
                 ret = Ok([field |-> f.val, direction |-> "asc"])
           /\ (f.tag = "Ok" /\ FirstColon(tok) > 0 /\ d \in {"asc", "desc"}) =>
                 ret = Ok([field |-> f.val, direction |-> d])
           /\ (f.tag = "Ok" /\ FirstColon(tok) > 0 /\ d \notin {"asc", "desc"}) =>
                 ret.tag = "Err" /\ ret.err.field = "sort:direction" /\ ret.err.value = DirText(tok)
           /\ (tok = "name:desc" /\ call.type \in {"SaveFields", "SolarSystemFields"}) =>
                 ret = Ok([field |-> <<"Name">>, direction |-> "desc"])
           /\ (tok = "ID:DESC") => ret = Ok([field |-> <<"Id">>, direction |-> "desc"])

\* A token with a nested field and a direction in mixed case was parsed.
C7_Witness ==
    /\ SortParsed /\ call.type = "SolarSystemFields" /\ call.value = "save.name:Desc"
    /\ ret = Ok([field |-> <<"Save", "Name">>, direction |-> "desc"])

\* The names of values() in declared order, written out.
ExpectedNames(T) ==
    CASE T = "SaveFields" -> <<"id", "created_at", "name", "notes">>
      [] T = "SolarSystemFields" ->
            <<"id", "save.id", "save.created_at", "save.name", "save.notes",
              "created_at", "name", "notes">>
      [] T = "StarFields" ->
            <<"id", "solar_system.id", "solar_system.save.id",
              "solar_system.save.created_at", "solar_system.save.name",
              "solar_system.save.notes", "solar_system.created_at",
              "solar_system.name", "solar_system.notes",
              "created_at", "notes", "luminosity", "radius">>

\* C8: Sort::try_from fails with InvalidFieldValue in exactly two ways: an unknown
\* field gives "sort:field" with Choice of the names of values() in declared
\* order; a known field with an unknown direction gives "sort:direction" with
\* Choice(asc, desc); with both invalid the field error is reported.
C8_SortErrors ==
    SortParsed =>
        LET tok == call.value
            f == from_str(call.type, FieldText(tok))
            dirOk == FirstColon(tok) = 0 \/ to_ascii_lowercase(DirText(tok)) \in {"asc", "desc"}
        IN /\ ret.tag = "Err" =>
                /\ ret.err.kind = "InvalidFieldValue"
                /\ \/ /\ ret.err.field = "sort:field"
                      /\ ret.err.allowed = [type |-> "Choice", values |-> ExpectedNames(call.type)]
                      /\ f.tag = "Err"
                   \/ /\ ret.err.field = "sort:direction"
                      /\ ret.err.allowed = [type |-> "Choice", values |-> <<"asc", "desc">>]
                      /\ f.tag = "Ok" /\ ~dirOk
           /\ f.tag = "Err" => (ret.tag = "Err" /\ ret.err.field = "sort:field")
           /\ (f.tag = "Ok" /\ ~dirOk) => (ret.tag = "Err" /\ ret.err.field = "sort:direction")

\* A token whose field and direction are both invalid gave the field error.
C8_Witness ==
    /\ SortParsed /\ call.type = "StarFields" /\ call.value = "bogus:up"
    /\ ret.tag = "Err" /\ ret.err.field = "sort:field"
    /\ Len(ret.err.allowed.values) = 13

(***************************************************************************)
(* Claims about parse_text / to_text (SpecFields).                         *)
(***************************************************************************)
FieldParsed == call.fn = "from_str" /\ Returned

\* C9: for every member f of values() of the three enumerations, nested members
\* included, parse_text(to_text(f)) is f, under every change of ASCII case of
\* the text.
C9_RoundTrip ==
    (FieldParsed /\ call.of # None) => ret = Ok(call.of[1])

\* A member nested two levels deep came back from its name in upper case.
C9_Witness ==
    /\ FieldParsed /\ call.type = "StarFields"
    /\ call.of = Some(<<"SolarSystem", "Save", "Name">>)
    /\ call.text = "SOLAR_SYSTEM.SAVE.NAME"
    /\ ret = Ok(<<"SolarSystem", "Save", "Name">>)

\* The leaf variants of T, and the nested types of its nested variants.
LeafCount(T) == Cardinality({i \in 1..Len(Variants(T)) : ~Variants(T)[i].nested})
NestedTypes(T) == {Variants(T)[i].sub : i \in {k \in 1..Len(Variants(T)) : Variants(T)[k].nested}}

\* The length the claim gives values() of T: 4, 4 + 4, 5 + 8.
RECURSIVE ExpectedCount(_)
ExpectedCount(T) ==
    LeafCount(T) +
    (IF NestedTypes(T) = {} THEN 0 ELSE ExpectedCount(CHOOSE S \in NestedTypes(T) : TRUE))

\* The members the claim gives values() of T, in declaration order.
RECURSIVE ExpectedValues(_)
ExpectedValues(T) ==
    CASE T = "SaveFields" -> << <<"Id">>, <<"CreatedAt">>, <<"Name">>, <<"Notes">> >>
      [] T = "SolarSystemFields" ->
            << <<"Id">> >> \o
            [k \in 1..4 |-> <<"Save">> \o ExpectedValues("SaveFields")[k]] \o
            << <<"CreatedAt">>, <<"Name">>, <<"Notes">> >>
      [] T = "StarFields" ->
            << <<"Id">> >> \o
            [k \in 1..8 |-> <<"SolarSystem">> \o ExpectedValues("SolarSystemFields")[k]] \o
            << <<"CreatedAt">>, <<"SpectralClass">>, <<"Luminosity">>, <<"Radius">> >>

\* C11: every call of values() of a field enumeration returns the same
\* sequence: in declaration order one member per leaf variant and, per nested
\* variant, every member of the nested type's values() wrapped in it; its
\* length is the leaf count plus the nested lengths (4, 8, 13) and its members'
\* names are pairwise distinct.
C11_ValuesComplete ==
    [][(call.fn = "values" /\ ret' # ret) =>
          LET vals == ret'.val
              T == call.type
          IN /\ vals = ExpectedValues(T)
             /\ Len(vals) = ExpectedCount(T)
             /\ Len(vals) = (CASE T = "SaveFields" -> 4
                               [] T = "SolarSystemFields" -> 8
                               [] T = "StarFields" -> 13)
             /\ \A i, j \in 1..Len(vals) :
                    name(T, vals[i]) = name(T, vals[j]) => i = j
             /\ ret # Pending => vals = ret.val]_vars

\* values() of StarFields has been called more than once and gave 13 members.
C11_Witness ==
    /\ call.fn = "values" /\ call.type = "StarFields" /\ Returned
    /\ ret.calls > 1 /\ Len(ret.val) = 13

\* The nested variant of an enumeration that has one.
HasNested(T) == \E i \in 1..Len(Variants(T)) : Variants(T)[i].nested
NestedVariant(T) == Variants(T)[CHOOSE i \in 1..Len(Variants(T)) : Variants(T)[i].nested]

\* C10: for an input that starts, ignoring case, with a nested prefix p: if it is
\* p alone or p followed by '.', parse_text gives the nested variant wrapping the
\* nested default; otherwise the nested variant wrapping the nested parse of what
\* follows p and one separator, or that parse's error; and it never aborts.
C10_NestedPrefix ==
    (FieldParsed /\ HasNested(call.type)
        /\ starts_with(to_ascii_lowercase(call.text), NestedVariant(call.type).text)) =>
        LET v == NestedVariant(call.type)
            lower == to_ascii_lowercase(call.text)
            rest == SubSeq(lower, Len(v.text) + 2, Len(lower))
            r == from_str(v.sub, rest)
        IN /\ ret.tag # "Panic"
           /\ IF lower = v.text \/ lower = v.text \o "."
              THEN ret = Ok(<<v.name>> \o Default(v.sub))
              ELSE ret = (IF r.tag = "Ok" THEN Ok(<<v.name>> \o r.val) ELSE r)

\* The nested prefix paths of T followed by '.', written out.
NestedShorthands(T) ==
    CASE T = "SaveFields" -> {}
      [] T = "SolarSystemFields" -> {"save."}
      [] T = "StarFields" -> {"solar_system.", "solar_system.save."}

\* C27: parse_text accepts a text only if, ignoring ASCII case, it is the name
\* of a member of values() or a nested prefix path followed by '.' and nothing
\* more; every other text (a nested prefix followed by another character than
\* '.', as in "savexname" or "save_name") is rejected with InvalidField.
C27_AcceptsOnlyNames ==
    FieldParsed =>
        LET lower == to_ascii_lowercase(call.text) IN
        lower \notin (Range(ExpectedNames(call.type)) \cup NestedShorthands(call.type))
            => ret = Err(call.text)

(***************************************************************************)
(* Claims about the update operations (Spec).                              *)
(***************************************************************************)
ConcurrentUpdateOf(h) ==
    Err(TrackerError("ConcurrentUpdate", kind, <<FieldValue("id", ent[h].id)>>))

StaleAtUpdate(h) ==
    /\ rows[ent[h].id].exists
    /\ rows[ent[h].id].version # ent[h].version

\* C1: when the UPDATE of a save, solar system or star executes while the
\* stored row's version differs from the submitted entity's version, the
\* operation ends with ConcurrentUpdate, its transaction is dropped, and the
\* stored rows (versions included) are exactly what they were; it does not
\* go on to succeed.
C1_StaleUpdateFails ==
    [][\A h \in Handlers :
          (pc[h] = "update" /\ pc'[h] # "update" /\ StaleAtUpdate(h)) =>
              /\ pc'[h] = "done"
              /\ result'[h] = ConcurrentUpdateOf(h)
              /\ tx'[h] = None
              /\ rows' = rows]_vars

\* A handler has finished an update with ConcurrentUpdate while the stored
\* row exists with another version than the one it submitted.
C1_Witness ==
    \E h \in Handlers :
        /\ pc[h] = "done" /\ req[h].op = "update" /\ ent[h].exists
        /\ result[h] = ConcurrentUpdateOf(h)
        /\ StaleAtUpdate(h)

\* Handler g has committed an update of the row of entity e that it had read
\* at e's version.
CommittedFrom(g, e) ==
    /\ pc[g] = "done" /\ req[g].op = "update" /\ result[g].tag = "Ok"
    /\ result[g].val.id = e.id
    /\ result[g].val.version = e.version + 1

\* C24: no lost update.  Two PATCH handlers that read the same row at the same
\* version never both commit a successful update; once one of them has
\* committed, the UPDATE of the other ends with ConcurrentUpdate, its
\* transaction is dropped and the stored rows stay what the first committed.
C24_NoLostUpdate ==
    /\ [](\A h, g \in Handlers :
            (h # g /\ pc[h] = "done" /\ req[h].op = "update" /\ result[h].tag = "Ok") =>
                ~CommittedFrom(g, [id |-> result[h].val.id,
                                   version |-> result[h].val.version - 1]))
    /\ [][\A h, g \in Handlers :
            (h # g /\ pc[h] = "update" /\ pc'[h] # "update" /\ CommittedFrom(g, ent[h])) =>
                /\ pc'[h] = "done"
                /\ result'[h] = ConcurrentUpdateOf(h)
                /\ tx'[h] = None
                /\ rows' = rows]_vars

\* Both handlers read the row at one version with different patches; g has
\* committed its update and h has ended with ConcurrentUpdate; the stored row
\* is the one g committed.
C24_Witness ==
    \E h, g \in Handlers :
        /\ h # g /\ pc[h] = "done" /\ req[h].op = "update" /\ ent[h].exists
        /\ result[h] = ConcurrentUpdateOf(h)
        /\ CommittedFrom(g, ent[h])
        /\ rows[ent[h].id] = result[g].val
        /\ ent[h].name # result[g].val.name

\* Handler h ends an update in this step.
UpdateEnds(h) == req[h].op = "update" /\ pc[h] # "done" /\ pc'[h] = "done"

\* C25: a row enters the store with version 0; a stored row that changes while
\* it stays has its version raised by exactly 1 and keeps its id, created_at
\* and owning foreign key; no step lowers a version; a successful update
\* raises the version of its row by 1 and a failed update changes no row.
C25_VersionCounts ==
    [][/\ \A i \in Ids :
            /\ (~rows[i].exists /\ rows'[i].exists) => rows'[i].version = 0
            /\ (rows[i].exists /\ rows'[i].exists) =>
                  /\ rows'[i].version >= rows[i].version
                  /\ rows'[i] # rows[i] =>
                        /\ rows'[i].version = rows[i].version + 1
                        /\ rows'[i].id = rows[i].id
                        /\ rows'[i].created_at = rows[i].created_at
                        /\ rows'[i].parent = rows[i].parent
       /\ \A h \in Handlers :
            UpdateEnds(h) =>
                IF result'[h].tag = "Ok"
                THEN /\ rows'[req[h].id].version = rows[req[h].id].version + 1
                     /\ result'[h].val = rows'[req[h].id]
                     /\ \A i \in Ids \ {req[h].id} : rows'[i] = rows[i]
                ELSE rows' = rows]_vars

\* A row stands at version 1 after a successful update, and another update of
\* it has failed.
C25_Witness ==
    \E h, g \in Handlers :
        /\ h # g
        /\ pc[h] = "done" /\ req[h].op = "update" /\ result[h].tag = "Ok"
        /\ result[h].val.version = 1 /\ rows[req[h].id] = result[h].val
        /\ pc[g] = "done" /\ req[g].op = "update" /\ req[g].id = req[h].id
        /\ result[g].tag = "Err"

(***************************************************************************)
(* Claims about delete (Spec).                                             *)
(***************************************************************************)
NotFoundOf(id) == Err(TrackerError("NotFound", kind, <<FieldValue("id", id)>>))

\* C30: delete never reports NotFound and is idempotent.  A delete handler
\* always ends with the same success and changes no row but the one under its
\* id; when its DELETE found no row (as a second delete of the id does) the
\* store is unchanged; when it found one, or none stands there at the commit,
\* no row is under the id after the commit and a lookup of the id gives
\* NotFound, as does every lookup handler that finds no row.
C30_DeleteIdempotent ==
    [][\A h \in Handlers :
          /\ (req[h].op = "delete" /\ pc[h] # "done" /\ pc'[h] = "done") =>
                /\ result'[h] = Ok(NoRow)
                /\ \A i \in Ids \ {req[h].id} : rows'[i] = rows[i]
                /\ tx[h] = None => rows' = rows
                /\ (tx[h] # None \/ ~rows[req[h].id].exists) =>
                      /\ ~rows'[req[h].id].exists
                      /\ lookup(h, req[h].id)' = NotFoundOf(req[h].id)
          /\ (req[h].op = "lookup" /\ pc[h] = "lookup" /\ pc'[h] # "lookup"
                /\ ~rows[req[h].id].exists) =>
                result'[h] = NotFoundOf(req[h].id)]_vars

\* A delete of an id handed out by a create has succeeded, no row is under
\* the id, and a lookup of the id has ended with NotFound.
C30_Witness ==
    \E h, g \in Handlers :
        /\ h # g
        /\ pc[h] = "done" /\ req[h].op = "delete" /\ result[h] = Ok(NoRow)
        /\ req[h].id < nextId /\ ~rows[req[h].id].exists
        /\ pc[g] = "done" /\ req[g].op = "lookup" /\ req[g].id = req[h].id
        /\ result[g] = NotFoundOf(req[h].id)

(***************************************************************************)
(* Claims about the handlers' transactions (SpecHandlers).                 *)
(***************************************************************************)
\* Handler h returns in this step with something else than Ok.
EndsInError(h) == pc[h] # "done" /\ pc'[h] = "done" /\ result'[h].tag # "Ok"

MetaBuilt == call.fn = "PageMetadata::new" /\ Returned

\* The integer ceiling of n / d.
CeilDiv(n, d) == (n + d - 1) \div d

\* C12: for every size >= 1 and every row count, total_pages is the exact
\* integer ceiling of total_results / size (0 rows give 0 pages; size 10 and
\* 25 rows give 3).
C12_TotalPagesExact ==
    (MetaBuilt /\ call.size >= 1) =>
        ret.total_pages = U64(CeilDiv(call.total, call.size))

\* C13: next_page is page + 1 exactly when page < total_pages and absent
\* otherwise; prev_page is page - 1 exactly when page > 1 and absent otherwise;
\* current_page is the page argument and total_results is passed through.
C13_NextPrevPages ==
    MetaBuilt =>
        /\ ret.next_page = (IF U64Less(U64(call.page), ret.total_pages)
                            THEN Some(U64(call.page + 1)) ELSE None)
        /\ ret.prev_page = (IF call.page > 1 THEN Some(U64(call.page - 1)) ELSE None)
        /\ ret.current_page = U64(call.page)
        /\ ret.total_results = U64(call.total)

\* Page 3 of 25 rows in pages of 10: three pages, no next page, previous page 2.
C13_Witness ==
    /\ MetaBuilt /\ call.page = 3 /\ call.size = 10 /\ call.total = 25
    /\ ret.total_pages = U64(3)
    /\ ret.next_page = None
    /\ ret.prev_page = Some(U64(2))

\* p lies in 1..total_pages.
InPages(p, total_pages) == ~U64Less(p, U64(1)) /\ ~U64Less(total_pages, p)

\* C29: for the pages (at least 1), sizes (1 to 500) and row counts a search
\* passes to PageMetadata::new, a page reported as next_page or prev_page
\* lies in 1..total_pages.
C29_LinksInRange ==
    (MetaBuilt /\ call.page >= 1 /\ call.size \in 1..MAX_PAGE_SIZE) =>
        /\ ret.next_page # None => InPages(ret.next_page[1], ret.total_pages)
        /\ ret.prev_page # None => InPages(ret.prev_page[1], ret.total_pages)

\* C29, amended: a page reported as next_page lies in 1..total_pages; a page
\* reported as prev_page is at least 1, and lies in 1..total_pages whenever
\* the current page does.
C29_LinksInRangeOfPage ==
    MetaBuilt =>
        /\ ret.next_page # None => InPages(ret.next_page[1], ret.total_pages)
        /\ ret.prev_page # None =>
              /\ ~U64Less(ret.prev_page[1], U64(1))
              /\ InPages(U64(call.page), ret.total_pages)
                    => InPages(ret.prev_page[1], ret.total_pages)

\* Page 2 of 25 rows in pages of 10: both links are reported, 3 and 1, of 3 pages.
C29_Witness ==
    /\ MetaBuilt /\ call.page = 2 /\ call.size = 10 /\ call.total = 25
    /\ ret.total_pages = U64(3)
    /\ ret.next_page = Some(U64(3))
    /\ ret.prev_page = Some(U64(1))

(***************************************************************************)
(* Claims about PageRequest::offset (SpecPage).                            *)
(***************************************************************************)
\* v * k in five limbs, nothing lost.
WideProduct(v, k) ==
    LET t1 == v[1] * k
        t2 == v[2] * k + (t1 \div LimbBase)
        t3 == v[3] * k + (t2 \div LimbBase)
        t4 == v[4] * k + (t3 \div LimbBase)
    IN <<t1 % LimbBase, t2 % LimbBase, t3 % LimbBase, t4 % LimbBase, t4 \div LimbBase>>

\* C14: for every request the normalizer produces, offset() returns
\* (page - 1) * size as exact integers: page is at least 1 so page - 1 does not
\* underflow, and the product neither wraps nor aborts.
C14_OffsetExact ==
    (call.fn = "PageRequest::try_from" /\ ret.tag = "Offset") =>
        /\ U64Less(U64(0), ret.request.page)
        /\ ret.offset.tag = "Ok"
        /\ ret.offset.val \o <<0>> =
              WideProduct(U64Dec(ret.request.page, 1), ret.request.size[1])

(***************************************************************************)
(* Claims about the rendering of errors (SpecErrors).                      *)
(***************************************************************************)
Rendered == call.fn = "error_response" /\ Returned

\* The status the claim gives each kind of error.
ExpectedStatus(e) ==
    CASE e.kind = "NotFound" -> 404
      [] e.kind \in {"Duplicate", "ConcurrentUpdate"} -> 409
      [] e.kind \in {"InvalidFieldValue", "MissingRequiredField"} -> 400
      [] e.kind \in {"UnexpectedNotFound", "SqlError"} -> 500
      [] e.kind = "JsonError" /\ e.source.variant = "Serialize" -> 500
      [] e.kind = "JsonError" /\ e.source.variant = "ContentType" -> 415
      [] e.kind = "JsonError" /\ e.source.variant \in {"Overflow", "OverflowKnownLength"} -> 413
      [] e.kind = "PathError" -> 404
      [] e.kind = "QueryStringError" -> 400
      [] OTHER -> 0

\* C15: status_code gives NotFound 404, Duplicate and ConcurrentUpdate 409,
\* InvalidFieldValue and MissingRequiredField 400, UnexpectedNotFound, storage
\* errors and serialization failures 500, unsupported content type 415,
\* payload too large 413, bad path 404 and bad query string 400.
C15_StatusCodes ==
    (Rendered /\ ExpectedStatus(call.err) # 0) => ret.status = ExpectedStatus(call.err)

\* A concurrent update has been rendered with status 409.
C15_Witness ==
    /\ Rendered /\ call.err.kind = "ConcurrentUpdate" /\ call.err.object = "Star"
    /\ ret.status = 409

\* The code of each kind of error that is not internal.
OwnCode(e) ==
    CASE e.kind = "JsonError" ->
            (CASE e.source.variant = "ContentType" -> "UnsupportedContentType"
               [] e.source.variant = "Deserialize" -> "InvalidJson"
               [] e.source.variant \in {"Overflow", "OverflowKnownLength"} -> "PayloadTooLarge"
               [] e.source.variant = "Payload" -> "InvalidPayload")
      [] e.kind = "QueryStringError" -> "InvalidQueryString"
      [] e.kind = "PathError" -> "InvalidUrlPath"
      [] OTHER -> e.kind

\* C16: an error rendered with status 500 (UnexpectedNotFound, storage error,
\* serialization failure) carries the fixed generic message and the code
\* InternalServerError; any other error carries its own formatted text and its
\* own code; and the status is 500 exactly when is_internal_server_error holds.
C16_InternalErrorsHidden ==
    Rendered =>
        /\ (ret.status = 500) <=> is_internal_server_error(call.err)
        /\ (ret.status = 500) <=>
              \/ call.err.kind \in {"UnexpectedNotFound", "SqlError"}
              \/ call.err.kind = "JsonError" /\ call.err.source.variant = "Serialize"
        /\ IF ret.status = 500
           THEN /\ ret.body.message = InternalServerErrorMessage
                /\ ret.body.error_code = "InternalServerError"
           ELSE /\ ret.body.message = to_string(call.err)
                /\ ret.body.message # InternalServerErrorMessage
                /\ ret.body.error_code = OwnCode(call.err)

\* An UnexpectedNotFound has been rendered with the generic message.
C16_Witness ==
    /\ Rendered /\ call.err.kind = "UnexpectedNotFound"
    /\ ret.status = 500
    /\ ret.body.message = InternalServerErrorMessage
    /\ ret.body.error_code = "InternalServerError"

\* C28: an error rendered with status 500 (UnexpectedNotFound, storage error,
\* serialization failure) has object, keys, field and allowed_values absent;
\* NotFound, Duplicate and ConcurrentUpdate carry exactly their object and
\* keys; InvalidFieldValue and MissingRequiredField carry exactly their field
\* and allowed values, the field of MissingRequiredField with a null value.
C28_ResponseParts ==
    Rendered =>
        LET e == call.err
            b == ret.body
        IN /\ ret.status = 500 =>
                 /\ e.kind \in {"UnexpectedNotFound", "SqlError", "JsonError"}
                 /\ b.object = None /\ b.keys = None
                 /\ b.field = None /\ b.allowed_values = None
           /\ e.kind \in {"UnexpectedNotFound", "SqlError"} => ret.status = 500
           /\ e.kind \in {"NotFound", "Duplicate", "ConcurrentUpdate"} =>
                 /\ b.object = <<e.object>> /\ b.keys = <<e.keys>>
                 /\ b.field = None /\ b.allowed_values = None
           /\ e.kind = "InvalidFieldValue" =>
                 /\ b.field = <<[name |-> e.field, value |-> e.value]>>
                 /\ b.allowed_values = <<e.allowed>>
                 /\ b.object = None /\ b.keys = None
           /\ e.kind = "MissingRequiredField" =>
                 /\ b.field = <<[name |-> e.field, value |-> None]>>
                 /\ b.allowed_values = <<e.allowed>>
                 /\ b.object = None /\ b.keys = None

\* An UnexpectedNotFound that carries an object and two keys has been
\* rendered without them.
C28_Witness ==
    /\ Rendered /\ call.err.kind = "UnexpectedNotFound"
    /\ call.err.object = "SolarSystem" /\ Len(call.err.keys) = 2
    /\ ret.status = 500
    /\ ret.body.object = None /\ ret.body.keys = None

(***************************************************************************)
(* Claims about the list endpoints (SpecSearch).                           *)
(***************************************************************************)
\* C17: when the normalization of page, size or a sort token of a list request
\* fails, the request ends with that validation error and no storage-layer
\* step was taken for it: no transaction begun, no count or select query.
C17_ValidationBeforeStorage ==
    \A h \in Handlers :
        (pc[h] = "done" /\ PageRequest_try_from(SearchType, call.raw).tag = "Err") =>
            /\ result[h] = PageRequest_try_from(SearchType, call.raw)
            /\ steps = <<>>

(***************************************************************************)
(* Claims about the translation of constraint violations (SpecConstraints).*)
(***************************************************************************)
Mapped == call.fn = "map_constraint_errors" /\ Returned

\* The known constraints: per entity its unique constraints with the key
\* columns they cover, and its foreign key.
KnownUnique(k, e) ==
    CASE k = "Save" ->
            [saves_name_key |-> <<FieldValue("name", e.name)>>,
             saves_id_pkey |-> <<FieldValue("id", e.id)>>]
      [] k = "SolarSystem" ->
            [solar_systems_save_id_name_key |->
                <<FieldValue("save_id", e.parent), FieldValue("name", e.name)>>]
      [] k = "Star" ->
            [stars_solar_system_id_key |-> <<FieldValue("solar_system_id", e.parent)>>]

KnownForeign(k) ==
    CASE k = "Save" -> {}
      [] k = "SolarSystem" -> {"solar_systems_save_id_fkey"}
      [] k = "Star" -> {"stars_solar_system_id_fkey"}

IsKnownUnique ==
    call.err.kind = "UniqueViolation"
        /\ call.err.constraint \in DOMAIN KnownUnique(call.kind, call.entity)
IsKnownForeign ==
    call.err.kind = "ForeignKeyViolation" /\ call.err.constraint \in KnownForeign(call.kind)

\* C18: a unique violation on a known constraint becomes Duplicate of the
\* entity with the conflicting key values; a foreign-key violation on a known
\* constraint becomes NotFound of the parent kind with the parent id; any
\* other violation stays the opaque storage error, rendered with status 500
\* and the generic message.
C18_ConstraintMapping ==
    Mapped =>
        IF IsKnownUnique
        THEN ret.error = TrackerError("Duplicate", call.kind,
                            KnownUnique(call.kind, call.entity)[call.err.constraint])
        ELSE IF IsKnownForeign
        THEN ret.error = TrackerError("NotFound",
                            IF call.kind = "SolarSystem" THEN "Save" ELSE "SolarSystem",
                            <<FieldValue("id", call.entity.parent)>>)
        ELSE /\ ret.error = SqlError(call.err)
             /\ ret.response.status = 500
             /\ ret.response.body.message = InternalServerErrorMessage
             /\ ret.response.body.error_code = "InternalServerError"

\* A unique violation on a constraint the star's mapping does not know came
\* back as the storage error with status 500.
C18_Witness ==
    /\ Mapped /\ call.kind = "Star"
    /\ call.err = [kind |-> "UniqueViolation", constraint |-> "solar_systems_pkey"]
    /\ ret.error.kind = "SqlError"
    /\ ret.response.status = 500

(***************************************************************************)
(* Claims about lookups (Spec).                                            *)
(***************************************************************************)
\* C19: when create or update has written its row and the lookup of that row
\* right after finds nothing, the operation returns UnexpectedNotFound (status
\* 500), not NotFound (404); a plain lookup of an id that does not exist
\* returns NotFound (404).
C19_UnexpectedNotFound ==
    [][\A h \in Handlers :
          /\ (pc[h] = "relookup" /\ pc'[h] = "done") =>
                /\ result'[h].err.kind = "UnexpectedNotFound"
                /\ status_code(result'[h].err) = 500
          /\ (pc[h] = "lookup" /\ pc'[h] = "done") =>
                /\ result'[h].err.kind = "NotFound"
                /\ status_code(result'[h].err) = 404]_vars

(***************************************************************************)
(* Claims about concurrent searches (SpecBuild).                           *)
(***************************************************************************)
\* C22: the tracker of a search starts empty and is its own: at every point
\* of every interleaving of two searches, a search's tracker and statement
\* hold the join to saves exactly when one of the directives of its own sort
\* list gone through so far is a Save(..) variant, whatever the other search
\* has recorded; the finished statement is the one handed to the query.
C22_TrackerPerRequest ==
    \A h \in Handlers :
        pc[h] \in {"add_sorts", "built"} =>
            LET n == Turns(ent[h].select_stmt)
                own == {i \in SaveDirectives(req[h]) : i <= n}
            IN /\ ent[h].joins_tracker = IF own = {} THEN <<>> ELSE <<save_table>>
               /\ Cardinality(SaveJoins(ent[h].select_stmt)) = IF own = {} THEN 0 ELSE 1
               /\ pc[h] = "built" =>
                     /\ n = Len(req[h])
                     /\ result[h] = Ok(ent[h].select_stmt)

\* Both searches are in add_sorts: h1 has recorded the join, h2 has gone
\* through a leaf directive and still has a Save(..) directive to come.
C22_Witness ==
    /\ call.fn = "build"
    /\ pc["h1"] = "add_sorts" /\ pc["h2"] = "add_sorts"
    /\ ent["h1"].joins_tracker = <<save_table>>
    /\ Turns(ent["h2"].select_stmt) = 1
    /\ ent["h2"].joins_tracker = <<>>
    /\ SaveDirectives(req["h2"]) = {2}
====
